---- MODULE Spec2Model ----
(***************************************************************************)
(* Model of the Wama flow controller (js/controllers/appController.js,     *)
(* third and last AppController draft, the one with SESSION_FINISHED),     *)
(* together with the parts of StateDetector, GestureDetector and AppState  *)
(* it drives.                                                              *)
(*                                                                         *)
(* Conventions                                                             *)
(*  - JavaScript null in a numeric field (timestamps, class numbers) is    *)
(*    written 0: in the source every such field is only read through       *)
(*    truthiness tests (!x, x && ..., x || y) and through subtraction,     *)
(*    where null coerces to 0, and Date.now() is never 0.                  *)
(*  - null in a string field is the string "null"; a null landmark set is  *)
(*    the empty tuple.                                                     *)
(*  - Time is the variable clock (the value of Date.now()).  The durations *)
(*    of TIMING and CONFIG are held in two records fixed at construction   *)
(*    (the source keeps them in two constant objects); the specifications  *)
(*    below start from scaled-down durations that keep the order of the    *)
(*    source's values, and SourceConfig / SourceTiming record the source's *)
(*    own numbers.                                                         *)
(***************************************************************************)
EXTENDS Integers, Sequences, FiniteSets, TLC

\* ---------------------------------------------------------------------------
\* Bounds of the exploration
\* ---------------------------------------------------------------------------
\* clock units explored after construction, by specification
MaxTime == 4
RaceMaxTime == 3
TimerMaxTime == 3
AskMaxTime == 6
\* startDetection calls and prediction loops alive at once, by specification
MaxLoops == 1
RaceMaxLoops == 2
\* setTimeout callbacks pending at once
MaxTimers == 3

\* Date.now() at construction; larger than every duration, as the epoch is
T0 == 20

NULL == "null"

\* ---------------------------------------------------------------------------
\* Configuration (js/config/config.js, appController.js TIMING)
\* ---------------------------------------------------------------------------
\* probabilities and ratios are in percent, landmark coordinates in 1/100
SourceConfig ==
    [ stateDebounceMs         |-> 300,
      predictionBufferSize    |-> 10,
      majorityThreshold       |-> 60,
      minConfidenceThreshold  |-> 55,
      thumbExtensionThreshold |-> 8,
      gestureHoldDuration     |-> 500 ]

SourceTiming ==
    [ INACTIVITY_TIMEOUT        |-> 5000,
      LONG_TASK_THRESHOLD       |-> 20000,
      MUSIC_COOLDOWN            |-> 120000,
      GESTURE_TIMEOUT           |-> 15000,
      RELIEF_DURATION           |-> 3000,
      SESSION_FINISHED_DURATION |-> 5000,
      GOODBYE_DURATION          |-> 5000 ]

\* the same records with durations in coarse clock units and a short buffer
ScaledConfig ==
    [ SourceConfig EXCEPT !.stateDebounceMs = 1,
                          !.predictionBufferSize = 1,
                          !.gestureHoldDuration = 1 ]

ScaledTiming ==
    [ INACTIVITY_TIMEOUT        |-> 1,
      LONG_TASK_THRESHOLD       |-> 1,
      MUSIC_COOLDOWN            |-> 2,
      GESTURE_TIMEOUT           |-> 1,
      RELIEF_DURATION           |-> 1,
      SESSION_FINISHED_DURATION |-> 1,
      GOODBYE_DURATION          |-> 1 ]

\* ---------------------------------------------------------------------------
\* FLOW_STATE, GESTURES, routes
\* ---------------------------------------------------------------------------
IDLE                 == "idle"
PERSON_ARRIVED       == "person_arrived"
TASK_ACTIVE          == "task_active"
LONG_TASK            == "long_task"
MUSIC_PLAYING        == "music_playing"
INTERRUPTION         == "interruption"
RETURN_AFTER_ABSENCE == "return_after"
SESSION_FINISHED     == "session_finished"
SESSION_ENDS         == "session_ends"

FLOW_STATE ==
    { IDLE, PERSON_ARRIVED, TASK_ACTIVE, LONG_TASK, MUSIC_PLAYING,
      INTERRUPTION, RETURN_AFTER_ABSENCE, SESSION_FINISHED, SESSION_ENDS }

YES == "thumbs_up"
NO  == "thumbs_down"

getRouteForFlowState(state) ==
    CASE state = IDLE                 -> "idle"
      [] state = PERSON_ARRIVED       -> "hello"
      [] state = TASK_ACTIVE          -> "working"
      [] state = LONG_TASK            -> "askmusic"
      [] state = MUSIC_PLAYING        -> "musicplaying"
      [] state = INTERRUPTION         -> "worried"
      [] state = RETURN_AFTER_ABSENCE -> "youreback"
      [] state = SESSION_FINISHED     -> "sessionfinished"
      [] state = SESSION_ENDS         -> "bye"

\* ---------------------------------------------------------------------------
\* State
\* ---------------------------------------------------------------------------
VARIABLES
    clock,      \* Date.now()
    CONFIG,     \* config.js CONFIG
    TIMING,     \* appController.js TIMING
    ctrl,       \* the AppController instance's fields
    app,        \* appState.state
    sd,         \* stateDetector: model / webcam loaded
    gd,         \* gestureDetector: hands loaded
    timers,     \* pending setTimeout callbacks, in arming order
    loops,      \* startDetection calls and the prediction loops they started
    route,      \* argument of the last router.navigate call
    audio,      \* audioManager: the track that plays, and whether it is paused
    bus,        \* EventBus: the callbacks of one event, and what emit called
    env,        \* what the surroundings may do (fixed at construction)
    ev,         \* the step taken last (history, not program state)
    hist        \* when a class change was last accepted, when LongTask was
                \* entered, how many of the pending timers (the first ones)
                \* were armed before the last stopDetection, and the current
                \* run of gesture evaluations (history, not program state)

vars == << clock, CONFIG, TIMING, env, ctrl, app, sd, gd, timers, loops, route,
           audio, bus, ev, hist >>

\* the part of the program state the controller's synchronous code mutates
\* ---------------------------------------------------------------------------
\* EventBus, for one event name.  A callback is [id, once, throws]: id tells
\* function objects apart, once marks the wrapper that once() subscribes,
\* throws says whether the handler throws when called.
\* ---------------------------------------------------------------------------
\* subs: every callback subscribed so far, by id; fired: how often each was
\* called; before, calls: the array when the last emit began and the ids it
\* called, in order; errors: console.error calls of the last emit
EventBusInit ==
    [ listeners |-> << >>, subs |-> << >>, fired |-> << >>,
      before |-> << >>, calls |-> << >>, errors |-> 0, emits |-> 0 ]

\* callbacks.indexOf(callback): 0 stands for -1
indexOf(callbacks, id) ==
    IF \E i \in 1..Len(callbacks) : callbacks[i].id = id
    THEN CHOOSE i \in 1..Len(callbacks) :
            /\ callbacks[i].id = id
            /\ \A j \in 1..(i - 1) : callbacks[j].id # id
    ELSE 0

\* callbacks.splice(index, 1)
spliceOne(callbacks, index) ==
    [ i \in 1..(Len(callbacks) - 1) |->
         IF i < index THEN callbacks[i] ELSE callbacks[i + 1] ]

off(callbacks, id) ==
    LET index == indexOf(callbacks, id)
    IN  IF index > 0 THEN spliceOne(callbacks, index) ELSE callbacks

\* Array.prototype.forEach from index k on: the length is read once, before
\* the first call, an index the array no longer has is passed over, and each
\* callback is read from the array as it is when its index comes up.  The
\* wrapper of once() unsubscribes itself, then calls the handler; what a
\* handler throws is caught and logged.
RECURSIVE forEach(_, _, _)
forEach(b, k, len) ==
    IF k > len THEN b
    ELSE IF k > Len(b.listeners) THEN forEach(b, k + 1, len)
    ELSE LET cb == b.listeners[k]
             b1 == IF cb.once
                   THEN [ b EXCEPT !.listeners = off(@, cb.id) ]
                   ELSE b
             b2 == [ b1 EXCEPT !.calls = Append(@, cb.id),
                               !.fired[cb.id] = @ + 1,
                               !.errors = IF cb.throws THEN @ + 1 ELSE @ ]
         IN  forEach(b2, k + 1, len)

emit(b) ==
    forEach([ b EXCEPT !.before = b.listeners, !.calls = << >>, !.errors = 0,
                       !.emits = @ + 1 ],
            1, Len(b.listeners))

World == [ c |-> ctrl, a |-> app, timers |-> timers, route |-> route, audio |-> audio ]

\* ---------------------------------------------------------------------------
\* audioManager.  The tracks are named as in audioElements; a track that
\* plays is currentAudio, and play() resolves at once.
\* ---------------------------------------------------------------------------
\* ROUTES[routeName].audio without its "audio-" prefix
RouteAudio(routeName) ==
    CASE routeName = "hello"        -> "hello"
      [] routeName = "howareyou"    -> "howareyou"
      [] routeName = "askmusic"     -> "askmusic"
      [] routeName = "musicplaying" -> "music"
      [] routeName = "worried"      -> "worried"
      [] routeName = "bye"          -> "bye"
      [] OTHER                      -> NULL

loopingAudio == { "worried", "music", "askmusic" }

NoAudio == [ currentAudio |-> NULL, paused |-> FALSE ]

stop(a) == IF a.currentAudio # NULL THEN NoAudio ELSE a

pause(a) == IF a.currentAudio # NULL THEN [ a EXCEPT !.paused = TRUE ] ELSE a

\* without the audio elements in the page nothing is played; otherwise the
\* current track is stopped if it is another one and the named track plays
play(a, audioName) ==
    IF ~env.audio THEN a
    ELSE [ currentAudio |-> audioName, paused |-> FALSE ]

\* a route without audio stops askmusic and any track that does not loop; a
\* route with audio stops askmusic and plays its own track
playForRoute(a, routeName) ==
    LET audioName == RouteAudio(routeName)
    IN  IF audioName = NULL
        THEN IF a.currentAudio = "askmusic" THEN stop(a)
             ELSE IF a.currentAudio # NULL /\ a.currentAudio \notin loopingAudio
                  THEN stop(a)
                  ELSE a
        ELSE play(IF a.currentAudio = "askmusic" /\ audioName # "askmusic"
                  THEN stop(a) ELSE a, audioName)

\* ---------------------------------------------------------------------------
\* AppState (core/state.js)
\* ---------------------------------------------------------------------------
\* only the keys the controller and the detectors read are kept
AppStateInit ==
    [ isRunning              |-> FALSE,
      webcam                 |-> FALSE,
      currentClass           |-> 0,
      lastClassChange        |-> 0,
      predictionBuffer       |-> << >>,
      gestureDetectionActive |-> FALSE,
      handLandmarks          |-> << >>,
      gestureHoldStart       |-> 0,
      currentGesture         |-> NULL,
      confirmedGesture       |-> NULL ]

resetMusicFlow(a) ==
    [ a EXCEPT !.gestureDetectionActive = FALSE,
               !.gestureHoldStart = 0,
               !.currentGesture = NULL,
               !.confirmedGesture = NULL,
               !.handLandmarks = << >> ]

\* resetTaskTracking writes taskStartTime, taskDuration and isLongTask of the
\* store, which only the debug panel reads: they are not part of app
\* ---------------------------------------------------------------------------
\* AppController
\* ---------------------------------------------------------------------------
AppControllerInit ==
    [ flowState              |-> IDLE,
      previousFlowState      |-> NULL,
      personArrivedTime      |-> 0,
      taskStartTime          |-> 0,
      interruptionStartTime  |-> 0,
      lastMusicAskTime       |-> 0,
      inactivityStartTime    |-> 0,
      musicAsked             |-> FALSE,
      musicResponse          |-> NULL,
      gestureDetectionActive |-> FALSE,
      gestureStartTime       |-> 0,
      animationFrameId       |-> 0 ]

\* a reset that goes through the bookkeeping of a transition and records the
\* state it leaves
resetRecordingPrevious(w) ==
    [ w EXCEPT
        !.c = [ @ EXCEPT !.previousFlowState = w.c.flowState,
                         !.flowState = IDLE,
                         !.personArrivedTime = 0,
                         !.taskStartTime = 0,
                         !.interruptionStartTime = 0,
                         !.inactivityStartTime = 0,
                         !.musicAsked = FALSE,
                         !.musicResponse = NULL,
                         !.gestureDetectionActive = FALSE,
                         !.gestureStartTime = 0 ],
        !.a = resetMusicFlow(@),
        !.audio = stop(@) ]

\* a reset that leaves the controller's gesture detection flag as it is
resetAllStateKeepsDetection(w) ==
    [ w EXCEPT
        !.c = [ @ EXCEPT !.flowState = IDLE,
                         !.previousFlowState = NULL,
                         !.personArrivedTime = 0,
                         !.taskStartTime = 0,
                         !.interruptionStartTime = 0,
                         !.inactivityStartTime = 0,
                         !.musicAsked = FALSE,
                         !.musicResponse = NULL,
                         !.gestureStartTime = 0 ],
        !.a = resetMusicFlow(@),
        !.audio = stop(@) ]

resetAllState(w) ==
    [ w EXCEPT
        !.c = [ @ EXCEPT !.flowState = IDLE,
                         !.previousFlowState = NULL,
                         !.personArrivedTime = 0,
                         !.taskStartTime = 0,
                         !.interruptionStartTime = 0,
                         !.inactivityStartTime = 0,
                         !.musicAsked = FALSE,
                         !.musicResponse = NULL,
                         !.gestureDetectionActive = FALSE,
                         !.gestureStartTime = 0 ],
        !.a = resetMusicFlow(@),
        !.audio = stop(@) ]

\* a controller that asks whenever the task is long, whatever the cooldown
canAskMusicAlways(c, t) == TRUE

\* canAskMusic reads Date.now() itself: t is the clock at the call
canAskMusic(c, t) ==
    IF c.lastMusicAskTime = 0 THEN TRUE
    ELSE (t - c.lastMusicAskTime) > TIMING.MUSIC_COOLDOWN

\* setTimeout(callback guarded by flowState === state, delay)
setTimeout(w, state, delay, t) ==
    [ w EXCEPT !.timers = Append(@, [ state |-> state, at |-> t + delay ]) ]

\* an entry action that restarts the task clock on every entry into TaskActive
onStateEnterRestartsTask(w, state, t) ==
    CASE state = IDLE ->
            LET r == resetAllState(w) IN [ r EXCEPT !.c.flowState = IDLE ]
      [] state = PERSON_ARRIVED ->
            [ w EXCEPT !.c.personArrivedTime = t, !.c.inactivityStartTime = t ]
      [] state = TASK_ACTIVE ->
            [ w EXCEPT !.c.taskStartTime = t ]
      [] state = LONG_TASK ->
            IF canAskMusic(w.c, t)
            THEN [ w EXCEPT !.c.gestureDetectionActive = TRUE,
                            !.a.gestureDetectionActive = TRUE,
                            !.c.gestureStartTime = t,
                            !.c.lastMusicAskTime = t,
                            !.c.musicAsked = TRUE ]
            ELSE w
      [] state = MUSIC_PLAYING ->
            [ w EXCEPT !.c.musicResponse = "yes",
                       !.c.gestureDetectionActive = FALSE,
                       !.a.gestureDetectionActive = FALSE ]
      [] state = INTERRUPTION ->
            [ w EXCEPT !.c.interruptionStartTime = t ]
      [] state = RETURN_AFTER_ABSENCE ->
            setTimeout(w, RETURN_AFTER_ABSENCE, TIMING.RELIEF_DURATION, t)
      [] state = SESSION_FINISHED ->
            setTimeout(w, SESSION_FINISHED, TIMING.SESSION_FINISHED_DURATION, t)
      [] state = SESSION_ENDS ->
            setTimeout(w, SESSION_ENDS, TIMING.GOODBYE_DURATION, t)

onStateEnter(w, state, t) ==
    CASE state = IDLE ->
            LET r == resetAllState(w) IN [ r EXCEPT !.c.flowState = IDLE ]
      [] state = PERSON_ARRIVED ->
            [ w EXCEPT !.c.personArrivedTime = t, !.c.inactivityStartTime = t ]
      [] state = TASK_ACTIVE ->
            IF w.c.taskStartTime = 0
            THEN [ w EXCEPT !.c.taskStartTime = t ]
            ELSE w
      [] state = LONG_TASK ->
            IF canAskMusic(w.c, t)
            THEN [ w EXCEPT !.c.gestureDetectionActive = TRUE,
                            !.a.gestureDetectionActive = TRUE,
                            !.c.gestureStartTime = t,
                            !.c.lastMusicAskTime = t,
                            !.c.musicAsked = TRUE ]
            ELSE w
      [] state = MUSIC_PLAYING ->
            [ w EXCEPT !.c.musicResponse = "yes",
                       !.c.gestureDetectionActive = FALSE,
                       !.a.gestureDetectionActive = FALSE ]
      [] state = INTERRUPTION ->
            [ w EXCEPT !.c.interruptionStartTime = t ]
      [] state = RETURN_AFTER_ABSENCE ->
            setTimeout(w, RETURN_AFTER_ABSENCE, TIMING.RELIEF_DURATION, t)
      [] state = SESSION_FINISHED ->
            setTimeout(w, SESSION_FINISHED, TIMING.SESSION_FINISHED_DURATION, t)
      [] state = SESSION_ENDS ->
            setTimeout(w, SESSION_ENDS, TIMING.GOODBYE_DURATION, t)

transitionTo(w, newState, t) ==
    IF newState = w.c.flowState THEN w
    ELSE LET w1 == [ w EXCEPT !.c.previousFlowState = w.c.flowState,
                              !.c.flowState = newState ]
             w2 == onStateEnter(w1, newState, t)
         IN  [ w2 EXCEPT !.route = getRouteForFlowState(newState) ]

\* a callback that never acts
timerCallbackIdle(w, state, t) == w

\* a callback that acts whatever state the machine is in when it fires
timerCallbackUnguarded(w, state, t) ==
    CASE state = RETURN_AFTER_ABSENCE -> transitionTo(w, TASK_ACTIVE, t)
      [] state = SESSION_FINISHED     -> transitionTo(w, SESSION_ENDS, t)
      [] state = SESSION_ENDS         -> transitionTo(w, IDLE, t)

\* the callback armed by onStateEnter, run when the timer fires
timerCallback(w, state, t) ==
    IF w.c.flowState = state
    THEN CASE state = RETURN_AFTER_ABSENCE -> transitionTo(w, TASK_ACTIVE, t)
           [] state = SESSION_FINISHED     -> transitionTo(w, SESSION_ENDS, t)
           [] state = SESSION_ENDS         -> transitionTo(w, IDLE, t)
    ELSE w

\* an exit from the music question that clears the flag of the store only
gestureOffInStoreOnly(w) ==
    [ w EXCEPT !.a.gestureDetectionActive = FALSE ]

gestureOff(w) ==
    [ w EXCEPT !.c.gestureDetectionActive = FALSE,
               !.a.gestureDetectionActive = FALSE ]

\* a timeout test with the operands of the subtraction swapped
gestureTimedOutSwapped(c, now) ==
    c.gestureStartTime # 0 /\ (c.gestureStartTime - now > TIMING.GESTURE_TIMEOUT)

\* the timeout test of the LONG_TASK branch
gestureTimedOut(c, now) ==
    c.gestureStartTime # 0 /\ (now - c.gestureStartTime > TIMING.GESTURE_TIMEOUT)

\* a reading of the classes that takes a person for present only at the sink
isPersonPresentAtSink(mlClass) == mlClass = 3

\* mlClass === 2 || mlClass === 3
isPersonPresent(mlClass) == mlClass = 2 \/ mlClass = 3

\* mlClass === 3 || mlClass === 4
isWaterOn(mlClass) == mlClass = 3 \/ mlClass = 4

\* a state machine that never restarts the inactivity interval
processFlowStateMachineNoRestart(w, mlClass, now, t) ==
    LET personPresent == isPersonPresent(mlClass)
        waterOn       == isWaterOn(mlClass)
        fs            == w.c.flowState
    IN
    CASE fs = IDLE ->
            IF personPresent THEN transitionTo(w, PERSON_ARRIVED, t) ELSE w
      [] fs = PERSON_ARRIVED ->
            IF waterOn /\ personPresent THEN transitionTo(w, TASK_ACTIVE, t)
            ELSE IF waterOn /\ ~personPresent THEN transitionTo(w, INTERRUPTION, t)
            ELSE IF ~personPresent
                 THEN IF now - w.c.inactivityStartTime > TIMING.INACTIVITY_TIMEOUT
                      THEN transitionTo(w, IDLE, t)
                      ELSE w
            ELSE w
      [] fs = TASK_ACTIVE ->
            IF ~personPresent /\ waterOn THEN transitionTo(w, INTERRUPTION, t)
            ELSE IF ~waterOn /\ personPresent THEN transitionTo(w, SESSION_FINISHED, t)
            ELSE IF ~waterOn /\ ~personPresent THEN transitionTo(w, SESSION_ENDS, t)
            ELSE LET taskDuration == now - w.c.taskStartTime IN
                 IF taskDuration > TIMING.LONG_TASK_THRESHOLD
                    /\ ~w.c.musicAsked /\ canAskMusic(w.c, t)
                 THEN transitionTo(w, LONG_TASK, t)
                 ELSE w
      [] fs = LONG_TASK ->
            IF ~personPresent /\ waterOn
            THEN transitionTo(gestureOff(w), INTERRUPTION, t)
            ELSE IF ~waterOn /\ personPresent
            THEN transitionTo(gestureOff(w), SESSION_FINISHED, t)
            ELSE IF ~waterOn /\ ~personPresent
            THEN transitionTo(gestureOff(w), SESSION_ENDS, t)
            ELSE IF gestureTimedOut(w.c, now)
            THEN transitionTo([ gestureOff(w) EXCEPT !.c.musicResponse = "timeout" ],
                              TASK_ACTIVE, t)
            ELSE w
      [] fs = MUSIC_PLAYING ->
            IF ~personPresent /\ waterOn
            THEN transitionTo([ w EXCEPT !.audio = pause(@) ], INTERRUPTION, t)
            ELSE IF ~waterOn /\ personPresent
            THEN transitionTo([ w EXCEPT !.audio = stop(@) ], SESSION_FINISHED, t)
            ELSE IF ~waterOn /\ ~personPresent
            THEN transitionTo([ w EXCEPT !.audio = stop(@) ], SESSION_ENDS, t)
            ELSE w
      [] fs = INTERRUPTION ->
            IF personPresent THEN transitionTo(w, RETURN_AFTER_ABSENCE, t)
            ELSE IF ~waterOn THEN transitionTo(w, SESSION_ENDS, t)
            ELSE w
      [] fs = RETURN_AFTER_ABSENCE ->
            IF ~personPresent /\ waterOn THEN transitionTo(w, INTERRUPTION, t)
            ELSE IF ~waterOn /\ personPresent THEN transitionTo(w, SESSION_FINISHED, t)
            ELSE IF ~waterOn /\ ~personPresent THEN transitionTo(w, SESSION_ENDS, t)
            ELSE w
      [] fs = SESSION_FINISHED ->
            IF personPresent /\ waterOn THEN transitionTo(w, TASK_ACTIVE, t)
            ELSE IF ~personPresent THEN transitionTo(w, SESSION_ENDS, t)
            ELSE w
      [] fs = SESSION_ENDS ->
            IF personPresent /\ waterOn THEN transitionTo(w, TASK_ACTIVE, t)
            ELSE w

\* now is the tick's timestamp (taken before the inference was awaited), t the
\* clock when the state machine runs
processFlowStateMachine(w, mlClass, now, t) ==
    LET personPresent == isPersonPresent(mlClass)
        waterOn       == isWaterOn(mlClass)
        fs            == w.c.flowState
    IN
    CASE fs = IDLE ->
            IF personPresent THEN transitionTo(w, PERSON_ARRIVED, t) ELSE w
      [] fs = PERSON_ARRIVED ->
            IF waterOn /\ personPresent THEN transitionTo(w, TASK_ACTIVE, t)
            ELSE IF waterOn /\ ~personPresent THEN transitionTo(w, INTERRUPTION, t)
            ELSE IF ~personPresent
                 THEN IF now - w.c.inactivityStartTime > TIMING.INACTIVITY_TIMEOUT
                      THEN transitionTo(w, IDLE, t)
                      ELSE w
            ELSE [ w EXCEPT !.c.inactivityStartTime = now ]
      [] fs = TASK_ACTIVE ->
            IF ~personPresent /\ waterOn THEN transitionTo(w, INTERRUPTION, t)
            ELSE IF ~waterOn /\ personPresent THEN transitionTo(w, SESSION_FINISHED, t)
            ELSE IF ~waterOn /\ ~personPresent THEN transitionTo(w, SESSION_ENDS, t)
            ELSE LET taskDuration == now - w.c.taskStartTime IN
                 IF taskDuration > TIMING.LONG_TASK_THRESHOLD
                    /\ ~w.c.musicAsked /\ canAskMusic(w.c, t)
                 THEN transitionTo(w, LONG_TASK, t)
                 ELSE w
      [] fs = LONG_TASK ->
            IF ~personPresent /\ waterOn
            THEN transitionTo(gestureOff(w), INTERRUPTION, t)
            ELSE IF ~waterOn /\ personPresent
            THEN transitionTo(gestureOff(w), SESSION_FINISHED, t)
            ELSE IF ~waterOn /\ ~personPresent
            THEN transitionTo(gestureOff(w), SESSION_ENDS, t)
            ELSE IF gestureTimedOut(w.c, now)
            THEN transitionTo([ gestureOff(w) EXCEPT !.c.musicResponse = "timeout" ],
                              TASK_ACTIVE, t)
            ELSE w
      [] fs = MUSIC_PLAYING ->
            IF ~personPresent /\ waterOn
            THEN transitionTo([ w EXCEPT !.audio = pause(@) ], INTERRUPTION, t)
            ELSE IF ~waterOn /\ personPresent
            THEN transitionTo([ w EXCEPT !.audio = stop(@) ], SESSION_FINISHED, t)
            ELSE IF ~waterOn /\ ~personPresent
            THEN transitionTo([ w EXCEPT !.audio = stop(@) ], SESSION_ENDS, t)
            ELSE w
      [] fs = INTERRUPTION ->
            IF personPresent THEN transitionTo(w, RETURN_AFTER_ABSENCE, t)
            ELSE IF ~waterOn THEN transitionTo(w, SESSION_ENDS, t)
            ELSE w
      [] fs = RETURN_AFTER_ABSENCE ->
            IF ~personPresent /\ waterOn THEN transitionTo(w, INTERRUPTION, t)
            ELSE IF ~waterOn /\ personPresent THEN transitionTo(w, SESSION_FINISHED, t)
            ELSE IF ~waterOn /\ ~personPresent THEN transitionTo(w, SESSION_ENDS, t)
            ELSE w
      [] fs = SESSION_FINISHED ->
            IF personPresent /\ waterOn THEN transitionTo(w, TASK_ACTIVE, t)
            ELSE IF ~personPresent THEN transitionTo(w, SESSION_ENDS, t)
            ELSE w
      [] fs = SESSION_ENDS ->
            IF personPresent /\ waterOn THEN transitionTo(w, TASK_ACTIVE, t)
            ELSE w

\* a response handler that leaves gesture detection to the entry action of
\* the next state
handleGestureResponseLeavesFlag(w, gesture, t) ==
    IF gesture = YES THEN transitionTo(w, MUSIC_PLAYING, t)
    ELSE IF gesture = NO
    THEN transitionTo([ w EXCEPT !.c.musicResponse = "no" ], TASK_ACTIVE, t)
    ELSE w

handleGestureResponse(w, gesture, t) ==
    LET w1 == gestureOff(w) IN
    IF gesture = YES THEN transitionTo(w1, MUSIC_PLAYING, t)
    ELSE IF gesture = NO
    THEN transitionTo([ w1 EXCEPT !.c.musicResponse = "no" ], TASK_ACTIVE, t)
    ELSE w1

\* ---------------------------------------------------------------------------
\* StateDetector (ml/stateDetector.js)
\* ---------------------------------------------------------------------------
\* predictions: the tuple of class probabilities, in percent
RECURSIVE argmax(_, _, _, _)
argmax(predictions, i, maxIndex, maxConfidence) ==
    IF i > Len(predictions) THEN [ index |-> maxIndex, confidence |-> maxConfidence ]
    ELSE IF predictions[i] > maxConfidence
         THEN argmax(predictions, i + 1, i - 1, predictions[i])
         ELSE argmax(predictions, i + 1, maxIndex, maxConfidence)

\* 0 when the confidence is too low, else the 1-indexed class
getActiveClass(predictions) ==
    LET m == argmax(predictions, 1, 0, 0) IN
    IF m.confidence < CONFIG.minConfidenceThreshold THEN 0 ELSE m.index + 1

voteCount(buffer, v) == Cardinality({ i \in 1..Len(buffer) : buffer[i] = v })

\* Object.entries(voteCounts) lists the integer keys in ascending order and
\* the scan keeps the first key with the highest count
majorityOf(buffer) ==
    LET keys == { buffer[i] : i \in 1..Len(buffer) }
        best == CHOOSE k \in keys :
                   /\ \A j \in keys : voteCount(buffer, j) <= voteCount(buffer, k)
                   /\ \A j \in keys : voteCount(buffer, j) = voteCount(buffer, k) => k <= j
    IN  [ class |-> best, count |-> voteCount(buffer, best) ]

\* a vote that counts a frame of low confidence as class 1
voteOfIdleWhenUnsure(a, classNum) ==
    IF classNum # 0 THEN classNum ELSE 1

\* the vote of a frame: its class, or the current class (1 when there is
\* none) when the confidence is too low
voteOf(a, classNum) ==
    IF classNum # 0 THEN classNum
    ELSE IF a.currentClass # 0 THEN a.currentClass ELSE 1

\* a buffer that refuses the newest vote when it overflows
trimBufferDropsNewest(pushed) ==
    IF Len(pushed) > CONFIG.predictionBufferSize
    THEN SubSeq(pushed, 1, Len(pushed) - 1) ELSE pushed

\* the buffer after the push: the oldest vote is shifted out when it overflows
trimBuffer(pushed) ==
    IF Len(pushed) > CONFIG.predictionBufferSize THEN Tail(pushed) ELSE pushed

\* the test of the majority m of the buffer; t is Date.now() at the call
majorityResult(a, buffer, m, t) ==
    [ a        |-> [ a EXCEPT !.predictionBuffer = buffer ],
      newClass |-> IF /\ m.class # a.currentClass
                      /\ m.count * 100 >= CONFIG.majorityThreshold * Len(buffer)
                      /\ (t - a.lastClassChange) > CONFIG.stateDebounceMs
                   THEN m.class ELSE 0 ]

bufferResult(a, buffer, t) == majorityResult(a, buffer, majorityOf(buffer), t)

\* t is Date.now() at the call; the result carries the updated store
processPredictionBuffer(a, predictions, t) ==
    bufferResult(a,
                 trimBuffer(Append(a.predictionBuffer,
                                   voteOf(a, getActiveClass(predictions)))),
                 t)

\* ---------------------------------------------------------------------------
\* GestureDetector (ml/gestureDetector.js)
\* ---------------------------------------------------------------------------
\* a classification that takes an offset equal to the threshold for a gesture
detectGestureAtThreshold(landmarks) ==
    IF landmarks = << >> \/ Len(landmarks) # 21 THEN NULL
    ELSE LET thumbVertical == landmarks[10] - landmarks[5]
             curled == { p \in { <<9, 7>>, <<13, 11>>, <<17, 15>>, <<21, 19>> } :
                           landmarks[p[1]] > landmarks[p[2]] }
             fingersCurled == Cardinality(curled) >= 3
         IN  IF thumbVertical >= CONFIG.thumbExtensionThreshold /\ fingersCurled THEN YES
             ELSE IF thumbVertical <= -CONFIG.thumbExtensionThreshold /\ fingersCurled THEN NO
             ELSE NULL

\* landmarks: the tuple of the y coordinates of the points, in 1/100;
\* MediaPipe index k is position k + 1
detectGesture(landmarks) ==
    IF landmarks = << >> \/ Len(landmarks) # 21 THEN NULL
    ELSE LET thumbVertical == landmarks[10] - landmarks[5]
             curled == { p \in { <<9, 7>>, <<13, 11>>, <<17, 15>>, <<21, 19>> } :
                           landmarks[p[1]] > landmarks[p[2]] }
             fingersCurled == Cardinality(curled) >= 3
         IN  IF thumbVertical > CONFIG.thumbExtensionThreshold /\ fingersCurled THEN YES
             ELSE IF thumbVertical < -CONFIG.thumbExtensionThreshold /\ fingersCurled THEN NO
             ELSE NULL

resetHold(a) == [ a EXCEPT !.currentGesture = NULL, !.gestureHoldStart = 0 ]

\* a hold that is confirmed only after more than gestureHoldDuration
handleGestureResultLate(a, gesture, t) ==
    IF a.confirmedGesture # NULL THEN [ a |-> a, result |-> "undefined" ]
    ELSE IF gesture = NULL THEN [ a |-> resetHold(a), result |-> "null" ]
    ELSE IF gesture # a.currentGesture
         THEN [ a |-> [ a EXCEPT !.currentGesture = gesture, !.gestureHoldStart = t ],
                result |-> "null" ]
    ELSE IF t - a.gestureHoldStart > CONFIG.gestureHoldDuration
         THEN [ a |-> a, result |-> "confirmed" ]
         ELSE [ a |-> a, result |-> "pending" ]

\* a hold that takes up a new candidate without restarting its clock
handleGestureResultKeepsStart(a, gesture, t) ==
    IF a.confirmedGesture # NULL THEN [ a |-> a, result |-> "undefined" ]
    ELSE IF gesture = NULL THEN [ a |-> resetHold(a), result |-> "null" ]
    ELSE IF gesture # a.currentGesture
         THEN [ a |-> [ a EXCEPT !.currentGesture = gesture,
                                 !.gestureHoldStart = IF @ = 0 THEN t ELSE @ ],
                result |-> "null" ]
    ELSE IF t - a.gestureHoldStart >= CONFIG.gestureHoldDuration
         THEN [ a |-> a, result |-> "confirmed" ]
         ELSE [ a |-> a, result |-> "pending" ]

\* result: "undefined" (bare return), "null", "pending" or "confirmed"
handleGestureResult(a, gesture, t) ==
    IF a.confirmedGesture # NULL THEN [ a |-> a, result |-> "undefined" ]
    ELSE IF gesture = NULL THEN [ a |-> resetHold(a), result |-> "null" ]
    ELSE IF gesture # a.currentGesture
         THEN [ a |-> [ a EXCEPT !.currentGesture = gesture, !.gestureHoldStart = t ],
                result |-> "null" ]
    ELSE IF t - a.gestureHoldStart >= CONFIG.gestureHoldDuration
         THEN [ a |-> a, result |-> "confirmed" ]
         ELSE [ a |-> a, result |-> "pending" ]

\* what processGestureDetection does with the result h of handleGestureResult
gestureResultApplied(w, h, t) ==
    IF h.result = "confirmed"
    THEN handleGestureResponse([ w EXCEPT !.a = h.a ], h.a.currentGesture, t)
    ELSE [ w EXCEPT !.a = h.a ]

\* processGestureDetection after the awaited processFrame
afterProcessFrame(w, t) ==
    IF w.a.handLandmarks # << >>
    THEN gestureResultApplied(
             w, handleGestureResult(w.a, detectGesture(w.a.handLandmarks), t), t)
    ELSE [ w EXCEPT !.a = resetHold(@) ]

\* the gesture confirmed by afterProcessFrame in w, NULL when none is
confirmedBy(w, t) ==
    IF w.a.handLandmarks # << >>
       /\ handleGestureResult(w.a, detectGesture(w.a.handLandmarks), t).result = "confirmed"
    THEN w.a.currentGesture ELSE NULL

\* ---------------------------------------------------------------------------
\* Inputs
\* ---------------------------------------------------------------------------
\* a frame the classifier is sure about, one per class
Sure(cls) == [ i \in 1..4 |-> IF i = cls THEN 85 ELSE 5 ]
\* a frame whose best probability is under minConfidenceThreshold
Unsure == << 40, 30, 20, 10 >>
Predictions == { Sure(cls) : cls \in 1..4 } \cup { Unsure }

\* 21 landmarks: thumb tip at thumbY, palm centre at 50, finger tips at tipY,
\* every other joint at 55
Hand(thumbY, tipY) ==
    [ k \in 1..21 |-> IF k = 5 THEN thumbY
                      ELSE IF k = 10 THEN 50
                      ELSE IF k \in { 9, 13, 17, 21 } THEN tipY
                      ELSE 55 ]
ThumbUpHand   == Hand(20, 60)
ThumbDownHand == Hand(80, 60)
OpenHand      == Hand(20, 30)
NoHand        == << >>
\* what onResults stores in handLandmarks
HandResults == { ThumbUpHand, ThumbDownHand, OpenHand, NoHand }

\* ---------------------------------------------------------------------------
\* History
\* ---------------------------------------------------------------------------
\* the last step: its operation, the class it gave the state machine (0: none)
\* and the gesture it confirmed (NULL: none)
Ev(op, cls, conf) == [ op |-> op, cls |-> cls, conf |-> conf ]

\* an evaluation of the hold: the gesture classified from the stored
\* landmarks, NULL when there is no hand or no gesture
evaluated(a) ==
    IF a.handLandmarks = << >> THEN NULL ELSE detectGesture(a.handLandmarks)

\* the gesture of the current unbroken run of evaluations that classified one
\* same gesture, and when the run began
runAfter(h, a, t) ==
    LET g == evaluated(a) IN
    IF g = NULL THEN [ h EXCEPT !.runGesture = NULL, !.runSince = 0 ]
    ELSE IF g = h.runGesture THEN h
    ELSE [ h EXCEPT !.runGesture = g, !.runSince = t ]

\* ---------------------------------------------------------------------------
\* Prediction loop (runPredictionLoop), one record per startDetection call
\* ---------------------------------------------------------------------------
\* pc: "none"    no call in this slot
\*     "init"    startDetection awaits the two initialize() calls
\*     "webcam"  startDetection awaits setupWebcam()
\*     "predict" a tick awaits stateDetector.predict()
\*     "hands"   a tick awaits gestureDetector.processFrame()
\*     "raf"     the next tick is requested (requestAnimationFrame)
\* now: the tick's timestamp, taken before predict() is awaited
LoopIds == DOMAIN loops
NoLoop == [ pc |-> "none", now |-> 0 ]

\* the writes of a step; a step that leaves the hash changed is followed by
\* the router's hashchange handler, and handleRouteChange plays the audio of
\* the new route before the next step
Commit(w) ==
    /\ Len(w.timers) <= MaxTimers
    /\ ctrl' = w.c
    /\ app' = w.a
    /\ timers' = w.timers
    /\ route' = w.route
    /\ audio' = IF w.route # route THEN playForRoute(w.audio, w.route) ELSE w.audio

\* end of a tick: requestAnimationFrame(() => this.runPredictionLoop())
requestFrame(w, l) == [ w EXCEPT !.c.animationFrameId = l ]

\* class handed to processFlowStateMachine: result.newClass || currentClass
mlClassOf(r) == IF r.newClass # 0 THEN r.newClass ELSE r.a.currentClass

\* the store after the result r of processPredictionBuffer is applied
classApplied(r, now) ==
    IF r.newClass # 0
    THEN [ r.a EXCEPT !.currentClass = r.newClass, !.lastClassChange = now ]
    ELSE r.a

\* the tick after processPredictionBuffer returned r: w is the world after
\* the state machine, cls the class it was given, acc whether a class change
\* was accepted
afterBuffer(w, r, now, t) ==
    [ w   |-> processFlowStateMachine([ w EXCEPT !.a = classApplied(r, now) ],
                                      mlClassOf(r), now, t),
      cls |-> mlClassOf(r),
      acc |-> r.newClass # 0 ]

\* the tick from the resolution of predict() to the gesture step;
\* predictions is << >> when predict() returned null
afterPredict(w, predictions, now, t) ==
    IF predictions = << >> THEN [ w |-> w, cls |-> 0, acc |-> FALSE ]
    ELSE afterBuffer(w, processPredictionBuffer(w.a, predictions, t), now, t)

\* the history after a tick that began in flow state fs0 and gave p
tickHistory(fs0, p) ==
    [ hist EXCEPT !.acceptedAt = IF p.acc THEN clock ELSE @,
                  !.askedAt = IF fs0 # LONG_TASK /\ p.w.c.flowState = LONG_TASK
                              THEN Append(@, clock) ELSE @ ]

\* the gesture step of a tick that gave p, up to its own await or to the end
\* of the tick; h1 is the history after the state machine
GestureStep(l, p, h1, now, op) ==
    IF p.w.c.gestureDetectionActive /\ p.w.a.webcam
    THEN IF gd.hands
         THEN /\ Commit(p.w)
              /\ loops' = [ loops EXCEPT ![l] = [ pc |-> "hands", now |-> now ] ]
              /\ ev' = Ev(op, p.cls, NULL)
              /\ hist' = h1
         ELSE \* processFrame returns at once, handLandmarks is not refreshed
              /\ Commit(requestFrame(afterProcessFrame(p.w, clock), l))
              /\ loops' = [ loops EXCEPT ![l] = [ pc |-> "raf", now |-> 0 ] ]
              /\ ev' = Ev(op, p.cls, confirmedBy(p.w, clock))
              /\ hist' = runAfter(h1, p.w.a, clock)
    ELSE /\ Commit(requestFrame(p.w, l))
         /\ loops' = [ loops EXCEPT ![l] = [ pc |-> "raf", now |-> 0 ] ]
         /\ ev' = Ev(op, p.cls, NULL)
         /\ hist' = h1

FinishTick(l, fs0, p, now, op) == GestureStep(l, p, tickHistory(fs0, p), now, op)

\* the rest of the tick once predict() has resolved: the state machine, then
\* the gesture step
ContinueTick(l, w0, predictions, now, op) ==
    FinishTick(l, w0.c.flowState, afterPredict(w0, predictions, now, clock), now, op)

\* a tick that takes a missing classification for a sure class 1
BeginTickAssumesIdle(l, w, op) ==
    IF ~w.a.isRunning
    THEN /\ Commit(w)
         /\ loops' = [ loops EXCEPT ![l] = NoLoop ]
         /\ ev' = Ev(op, 0, NULL)
         /\ hist' = hist
    ELSE IF ~sd.model \/ ~sd.webcam
    THEN ContinueTick(l, w, Sure(1), clock, op)
    ELSE /\ Commit(w)
         /\ loops' = [ loops EXCEPT ![l] = [ pc |-> "predict", now |-> clock ] ]
         /\ ev' = Ev(op, 0, NULL)
         /\ hist' = hist

\* entry of runPredictionLoop up to the await of predict()
BeginTick(l, w, op) ==
    IF ~w.a.isRunning
    THEN /\ Commit(w)
         /\ loops' = [ loops EXCEPT ![l] = NoLoop ]
         /\ ev' = Ev(op, 0, NULL)
         /\ hist' = hist
    ELSE IF ~sd.model \/ ~sd.webcam
    THEN \* predict() returns null without awaiting the model
         ContinueTick(l, w, << >>, clock, op)
    ELSE /\ Commit(w)
         /\ loops' = [ loops EXCEPT ![l] = [ pc |-> "predict", now |-> clock ] ]
         /\ ev' = Ev(op, 0, NULL)
         /\ hist' = hist

\* ---------------------------------------------------------------------------
\* Actions
\* ---------------------------------------------------------------------------
\* startDetection() is called: it awaits the initialisation of the two models
StartDetection(l) ==
    /\ loops[l].pc = "none"
    /\ \A k \in LoopIds : k < l => loops[k].pc # "none"
    /\ loops' = [ loops EXCEPT ![l] = [ pc |-> "init", now |-> 0 ] ]
    /\ ev' = Ev("start", 0, NULL)
    /\ UNCHANGED << clock, CONFIG, TIMING, bus, env, ctrl, app, sd, gd, timers, route, audio, hist >>

\* Promise.all([stateDetector.initialize(), gestureDetector.initialize()])
\* settles: a failed model load is swallowed by initialize(), a failed Hands
\* construction rejects and lands in startDetection's catch; otherwise
\* setupWebcam() is called and assigns stateDetector.webcam before it awaits
InitDone(l, modelOk, handsOk) ==
    /\ loops[l].pc = "init"
    /\ ev' = Ev("init", 0, NULL)
    /\ IF handsOk
       THEN /\ sd' = [ model |-> sd.model \/ modelOk, webcam |-> TRUE ]
            /\ gd' = [ hands |-> TRUE ]
            /\ loops' = [ loops EXCEPT ![l] = [ pc |-> "webcam", now |-> 0 ] ]
            /\ UNCHANGED app
       ELSE /\ sd' = [ sd EXCEPT !.model = sd.model \/ modelOk ]
            /\ gd' = gd
            /\ loops' = [ loops EXCEPT ![l] = NoLoop ]
            /\ app' = [ app EXCEPT !.isRunning = FALSE ]
    /\ UNCHANGED << clock, CONFIG, TIMING, bus, env, ctrl, timers, route, audio, hist >>

\* setupWebcam() settles; on success startDetection runs on to the first
\* await of the prediction loop
WebcamDone(l, ok) ==
    /\ loops[l].pc = "webcam"
    /\ IF ok
       THEN LET w0 == [ World EXCEPT !.a.webcam = TRUE, !.a.isRunning = TRUE ]
                w1 == transitionTo(w0, IDLE, clock)
            IN  BeginTick(l, w1, "webcam")
       ELSE /\ app' = [ app EXCEPT !.isRunning = FALSE ]
            /\ loops' = [ loops EXCEPT ![l] = NoLoop ]
            /\ ev' = Ev("webcam", 0, NULL)
            /\ UNCHANGED << ctrl, timers, route, audio, hist >>
    /\ UNCHANGED << clock, CONFIG, TIMING, bus, env, sd, gd >>

\* the requested animation frame arrives
RafFire(l) ==
    /\ loops[l].pc = "raf"
    /\ BeginTick(l, World, "raf")
    /\ UNCHANGED << clock, CONFIG, TIMING, bus, env, sd, gd >>

\* the awaited predict() resolves with the classifier's probabilities
PredictResolve(l, predictions) ==
    /\ loops[l].pc = "predict"
    /\ ContinueTick(l, World, predictions, loops[l].now, "predict")
    /\ UNCHANGED << clock, CONFIG, TIMING, bus, env, sd, gd >>

\* the awaited processFrame() resolves: onResults has stored the landmarks
\* (or send failed and the stored ones stay), then the hold is evaluated
HandsResolve(l, result, sent) ==
    /\ loops[l].pc = "hands"
    /\ LET w0 == IF sent THEN [ World EXCEPT !.a.handLandmarks = result ] ELSE World
       IN  /\ Commit(requestFrame(afterProcessFrame(w0, clock), l))
           /\ ev' = Ev("hands", 0, confirmedBy(w0, clock))
           /\ hist' = runAfter(hist, w0.a, clock)
    /\ loops' = [ loops EXCEPT ![l] = [ pc |-> "raf", now |-> 0 ] ]
    /\ UNCHANGED << clock, CONFIG, TIMING, bus, env, sd, gd >>

\* a stop that resets the controller and leaves the page as it is
StopDetectionStaysOnPage ==
    LET id == ctrl.animationFrameId
        w0 == [ World EXCEPT !.a.isRunning = FALSE,
                             !.c.animationFrameId = 0,
                             !.a.webcam = IF sd.webcam THEN FALSE ELSE @ ]
    IN  /\ Commit(resetAllState(w0))
        /\ loops' = IF id # 0 /\ loops[id].pc = "raf"
                    THEN [ loops EXCEPT ![id] = NoLoop ]
                    ELSE loops
        /\ sd' = [ model |-> FALSE, webcam |-> FALSE ]
        /\ gd' = [ hands |-> FALSE ]
        /\ ev' = Ev("stop", 0, NULL)
        /\ hist' = [ hist EXCEPT !.oldTimers = Len(timers) ]
        /\ UNCHANGED << clock, CONFIG, TIMING, bus, env >>

\* stopDetection()
StopDetection ==
    LET id == ctrl.animationFrameId
        w0 == [ World EXCEPT !.a.isRunning = FALSE,
                             !.c.animationFrameId = 0,
                             !.a.webcam = IF sd.webcam THEN FALSE ELSE @ ]
        w1 == resetAllState(w0)
    IN  /\ Commit([ w1 EXCEPT !.route = "idle" ])
        /\ loops' = IF id # 0 /\ loops[id].pc = "raf"
                    THEN [ loops EXCEPT ![id] = NoLoop ]
                    ELSE loops
        /\ sd' = [ model |-> FALSE, webcam |-> FALSE ]
        /\ gd' = [ hands |-> FALSE ]
        /\ ev' = Ev("stop", 0, NULL)
        /\ hist' = [ hist EXCEPT !.oldTimers = Len(timers) ]
        /\ UNCHANGED << clock, CONFIG, TIMING, bus, env >>

\* timers fire in the order of their expiry, then of their arming
IsNextTimer(i) ==
    /\ i \in 1..Len(timers)
    /\ timers[i].at <= clock
    /\ \A j \in 1..Len(timers) :
          \/ timers[j].at > timers[i].at
          \/ (timers[j].at = timers[i].at /\ j >= i)

RemoveAt(seq, i) == SubSeq(seq, 1, i - 1) \o SubSeq(seq, i + 1, Len(seq))

TimerFire(i) ==
    /\ IsNextTimer(i)
    /\ LET w0 == [ World EXCEPT !.timers = RemoveAt(@, i) ]
       IN  Commit(timerCallback(w0, timers[i].state, clock))
    /\ ev' = Ev("timer", 0, NULL)
    /\ hist' = [ hist EXCEPT !.oldTimers = IF i <= @ THEN @ - 1 ELSE @ ]
    /\ UNCHANGED << clock, CONFIG, TIMING, bus, env, sd, gd, loops >>

\* time passes; a timer that is due fires before the clock moves on
Advance ==
    /\ clock < T0 + env.horizon
    /\ \A i \in 1..Len(timers) : timers[i].at > clock
    /\ clock' = clock + 1
    /\ ev' = Ev("advance", 0, NULL)
    /\ UNCHANGED << CONFIG, TIMING, bus, env, ctrl, app, sd, gd, timers, loops, route, audio, hist >>

\* ---------------------------------------------------------------------------
\* Specifications
\* ---------------------------------------------------------------------------
\* the program right after the module's singletons are constructed
Constructed(nLoops) ==
    /\ clock = T0
    /\ ctrl = AppControllerInit
    /\ app = AppStateInit
    /\ sd = [ model |-> FALSE, webcam |-> FALSE ]
    /\ gd = [ hands |-> FALSE ]
    /\ timers = << >>
    /\ loops = [ l \in 1..nLoops |-> NoLoop ]
    /\ route = "idle"
    /\ audio = NoAudio
    /\ bus = EventBusInit
    /\ ev = Ev("construct", 0, NULL)
    /\ hist = [ acceptedAt |-> 0, askedAt |-> << >>, oldTimers |-> 0,
                runGesture |-> NULL, runSince |-> 0 ]

\* one prediction loop, every input, every failure
Init ==
    /\ Constructed(MaxLoops)
    /\ CONFIG = ScaledConfig
    /\ TIMING = ScaledTiming
    /\ env = [ horizon     |-> MaxTime,
               predictions |-> Predictions,
               hands       |-> HandResults,
               outcomes    |-> BOOLEAN,
               audio       |-> FALSE ]

Next ==
    \/ \E l \in LoopIds : StartDetection(l)
    \/ \E l \in LoopIds, modelOk \in env.outcomes, handsOk \in env.outcomes :
          InitDone(l, modelOk, handsOk)
    \/ \E l \in LoopIds, ok \in env.outcomes : WebcamDone(l, ok)
    \/ \E l \in LoopIds : RafFire(l)
    \/ \E l \in LoopIds, predictions \in env.predictions : PredictResolve(l, predictions)
    \/ \E l \in LoopIds, result \in env.hands, sent \in env.outcomes :
          HandsResolve(l, result, sent)
    \/ StopDetection
    \/ \E i \in 1..Len(timers) : TimerFire(i)
    \/ Advance

Spec == Init /\ [][Next]_vars

\* two startDetection calls may be alive at once; fewer inputs, no failure
RaceInit ==
    /\ Constructed(RaceMaxLoops)
    /\ CONFIG = ScaledConfig
    /\ TIMING = ScaledTiming
    /\ env = [ horizon     |-> RaceMaxTime,
               predictions |-> { Sure(1), Sure(3) },
               hands       |-> { ThumbUpHand },
               outcomes    |-> { TRUE },
               audio       |-> FALSE ]

RaceSpec == RaceInit /\ [][Next]_vars

\* ---------------------------------------------------------------------------
\* The transition table of the specification
\* ---------------------------------------------------------------------------
PersonPresent(cls) == cls \in { 2, 3 }
WaterOn(cls) == cls \in { 3, 4 }

\* the rows decided by the signal alone, in the listed order; NULL: no such row
SignalRow(fs, p, w) ==
    CASE fs = IDLE /\ p -> PERSON_ARRIVED
      [] fs = PERSON_ARRIVED /\ w /\ p -> TASK_ACTIVE
      [] fs = PERSON_ARRIVED /\ w /\ ~p -> INTERRUPTION
      [] fs \in { TASK_ACTIVE, LONG_TASK, MUSIC_PLAYING, RETURN_AFTER_ABSENCE }
            /\ ~p /\ w -> INTERRUPTION
      [] fs \in { TASK_ACTIVE, LONG_TASK, MUSIC_PLAYING, RETURN_AFTER_ABSENCE }
            /\ ~w /\ p -> SESSION_FINISHED
      [] fs \in { TASK_ACTIVE, LONG_TASK, MUSIC_PLAYING, RETURN_AFTER_ABSENCE }
            /\ ~w /\ ~p -> SESSION_ENDS
      [] fs = INTERRUPTION /\ p -> RETURN_AFTER_ABSENCE
      [] fs = INTERRUPTION /\ ~p /\ ~w -> SESSION_ENDS
      [] fs = SESSION_FINISHED /\ p /\ w -> TASK_ACTIVE
      [] fs = SESSION_FINISHED /\ ~p -> SESSION_ENDS
      [] fs = SESSION_ENDS /\ p /\ w -> TASK_ACTIVE
      [] OTHER -> NULL

\* the rows of a tick that also depend on elapsed time
TimedRow(fs, p, w, next) ==
    \/ fs = PERSON_ARRIVED /\ ~p /\ next = IDLE
    \/ fs = TASK_ACTIVE /\ p /\ w /\ next = LONG_TASK
    \/ fs = LONG_TASK /\ p /\ w /\ next = TASK_ACTIVE

\* the rows taken by a confirmed gesture
GestureRow(fs, gesture, next) ==
    /\ fs = LONG_TASK
    /\ \/ gesture = YES /\ next = MUSIC_PLAYING
       \/ gesture = NO /\ next = TASK_ACTIVE

\* the (timer) rows
TimerRow(fs, next) ==
    \/ fs = RETURN_AFTER_ABSENCE /\ next = TASK_ACTIVE
    \/ fs = SESSION_FINISHED /\ next = SESSION_ENDS
    \/ fs = SESSION_ENDS /\ next = IDLE

\* a step of the table from fs to next, taken by the step recorded in e
TableStep(fs, next, e) ==
    LET p == PersonPresent(e.cls)
        w == WaterOn(e.cls)
    IN  CASE e.op = "timer" -> TimerRow(fs, next)
          [] e.op = "hands" -> GestureRow(fs, e.conf, next)
          [] e.op \in { "predict", "raf" } /\ e.conf # NULL ->
                \* the tick ran into the gesture step without awaiting
                \E mid \in FLOW_STATE :
                    /\ IF SignalRow(fs, p, w) # NULL THEN mid = SignalRow(fs, p, w)
                       ELSE mid = fs \/ TimedRow(fs, p, w, mid)
                    /\ GestureRow(mid, e.conf, next)
          [] e.op \in { "predict", "raf" } /\ e.cls # 0 ->
                IF SignalRow(fs, p, w) # NULL THEN next = SignalRow(fs, p, w)
                ELSE next = fs \/ TimedRow(fs, p, w, next)
          [] OTHER -> next = fs

\* ---------------------------------------------------------------------------
\* C1
\* ---------------------------------------------------------------------------
\* C1: every step of the controller is a step of the transition table: a tick
\* that was given a class takes the first matching row for (flowState,
\* personPresent, waterOn), a confirmed gesture and a firing timer take their
\* rows, and any other change of flowState is stopDetection forcing Idle.
C1_TableRefinement ==
    [][ \/ ev'.op = "stop" /\ ctrl'.flowState = IDLE
        \/ TableStep(ctrl.flowState, ctrl'.flowState, ev') ]_vars

\* ---------------------------------------------------------------------------
\* C2
\* ---------------------------------------------------------------------------
\* durations in seconds: the debounce (0.3 s) is under one unit, so that a
\* class may change at every unit, and the three timers last two units, so
\* that a state can be left and entered again while its timer is pending
TimerInit ==
    /\ Constructed(MaxLoops)
    /\ CONFIG = [ ScaledConfig EXCEPT !.stateDebounceMs = 0 ]
    /\ TIMING = [ ScaledTiming EXCEPT !.RELIEF_DURATION = 2,
                                      !.SESSION_FINISHED_DURATION = 2,
                                      !.GOODBYE_DURATION = 2 ]
    /\ env = [ horizon     |-> TimerMaxTime,
               predictions |-> Predictions,
               hands       |-> { ThumbUpHand, NoHand },
               outcomes    |-> { TRUE },
               audio       |-> FALSE ]

TimerSpec == TimerInit /\ [][Next]_vars

\* C2: a timer armed by an earlier entry never causes the auto-transition:
\* when a firing timer moves the machine out of a state, no timer armed by a
\* later entry into that state is still running, that is, the full duration
\* has elapsed since the most recent entry.
C2_StaleTimerNeverActs ==
    [][ (ev'.op = "timer" /\ ctrl'.flowState # ctrl.flowState)
        => \A i \in 1..Len(timers') :
              timers'[i].state = ctrl.flowState => timers'[i].at <= clock ]_vars

\* ---------------------------------------------------------------------------
\* C3
\* ---------------------------------------------------------------------------
\* one loop, a horizon long enough for a second music question after the
\* cooldown; the signal is class 3 or class 1
AskInit ==
    /\ Constructed(MaxLoops)
    /\ CONFIG = ScaledConfig
    /\ TIMING = ScaledTiming
    /\ env = [ horizon     |-> AskMaxTime,
               predictions |-> { Sure(1), Sure(3) },
               hands       |-> { NoHand },
               outcomes    |-> { TRUE },
               audio       |-> FALSE ]

AskSpec == AskInit /\ [][Next]_vars

\* a tick resolving in TaskActive with class 3 (person present, water on)
\* whose timestamp is more than LONG_TASK_THRESHOLD after the task's start
LongTaskDue ==
    /\ ev'.op = "predict"
    /\ ev'.cls = 3
    /\ ctrl.flowState = TASK_ACTIVE
    /\ \E l \in LoopIds :
          /\ loops[l].pc = "predict"
          /\ loops'[l].pc # "predict"
          /\ loops[l].now - ctrl.taskStartTime > TIMING.LONG_TASK_THRESHOLD

\* C3: LongTask is entered only more than MUSIC_COOLDOWN after its previous
\* entry, the last time the music question was asked (also across a return to
\* Idle and a new task); and a tick in TaskActive with person present and
\* water on for more than LONG_TASK_THRESHOLD enters LongTask when the
\* question was not asked in this task and the cooldown has elapsed.
C3_LongTaskOnceThenCooldown ==
    /\ [](\A i \in 2..Len(hist.askedAt) :
             hist.askedAt[i] - hist.askedAt[i - 1] > TIMING.MUSIC_COOLDOWN)
    /\ [][ (LongTaskDue /\ ~ctrl.musicAsked
              /\ (hist.askedAt = << >>
                  \/ clock - hist.askedAt[Len(hist.askedAt)] > TIMING.MUSIC_COOLDOWN))
           => ctrl'.flowState = LONG_TASK ]_vars

\* the music question is asked a second time, after a return to Idle
C3_Witness ==
    /\ Len(hist.askedAt) = 2
    /\ ctrl.flowState = LONG_TASK
    /\ ctrl.lastMusicAskTime = clock
    /\ ctrl.gestureDetectionActive

\* ---------------------------------------------------------------------------
\* C4
\* ---------------------------------------------------------------------------
\* C4: any two accepted changes of the stable class are more than
\* stateDebounceMs apart: a step that changes currentClass comes more than
\* stateDebounceMs after the step that changed it last.
C4_OneChangePerDebounce ==
    [][ app'.currentClass # app.currentClass
        => \/ hist.acceptedAt = 0
           \/ clock - hist.acceptedAt > CONFIG.stateDebounceMs ]_vars

\* ---------------------------------------------------------------------------
\* C5
\* ---------------------------------------------------------------------------
\* the loops whose tick has begun and not finished: it awaits the
\* classification or the hand landmarks
TicksInProgress == { l \in LoopIds : loops[l].pc \in { "predict", "hands" } }

\* C5: whatever the sequence of startDetection and stopDetection calls, at
\* most one tick is in progress at any time.
C5_NoTickOverlap == Cardinality(TicksInProgress) <= 1

\* ---------------------------------------------------------------------------
\* C6
\* ---------------------------------------------------------------------------
\* the fields the specification lists in the flow context, all cleared
ContextCleared(c) ==
    /\ c.personArrivedTime = 0
    /\ c.taskStartTime = 0
    /\ c.interruptionStartTime = 0
    /\ c.lastMusicAskTime = 0
    /\ c.inactivityStartTime = 0
    /\ ~c.musicAsked
    /\ c.musicResponse = NULL
    /\ ~c.gestureDetectionActive
    /\ c.gestureStartTime = 0

\* C6: stopDetection leaves flowState Idle and the flow context cleared, and
\* while detection is stopped a timer armed before the stop changes neither
\* flowState nor the flow context when it fires.
C6_StopSilencesTimers ==
    [][ /\ ev'.op = "stop" => (ctrl'.flowState = IDLE /\ ContextCleared(ctrl'))
        /\ (ev'.op = "timer" /\ ~app.isRunning
               /\ hist'.oldTimers < hist.oldTimers) => ctrl' = ctrl ]_vars

\* ---------------------------------------------------------------------------
\* C7
\* ---------------------------------------------------------------------------
\* the state stopDetection is to leave: Idle, the per-session fields cleared,
\* gesture detection off, the page idle
Stopped ==
    /\ ctrl.flowState = IDLE
    /\ ctrl.previousFlowState = NULL
    /\ ctrl.personArrivedTime = 0 /\ ctrl.taskStartTime = 0
    /\ ctrl.interruptionStartTime = 0 /\ ctrl.inactivityStartTime = 0
    /\ ~ctrl.musicAsked /\ ctrl.musicResponse = NULL
    /\ ~ctrl.gestureDetectionActive /\ ctrl.gestureStartTime = 0
    /\ ctrl.animationFrameId = 0
    /\ ~app.gestureDetectionActive /\ ~app.isRunning
    /\ route = "idle"

C8_ConfirmedGestureDecides ==
    [][ (ev'.op = "hands" /\ ev'.conf # NULL /\ ctrl.flowState = LONG_TASK)
        => /\ ev'.conf = YES =>
                 (ctrl'.flowState = MUSIC_PLAYING /\ ctrl'.musicResponse = "yes")
           /\ ev'.conf = NO =>
                 (ctrl'.flowState = TASK_ACTIVE /\ ctrl'.musicResponse = "no")
           /\ ev'.conf \in { YES, NO }
           /\ ~ctrl'.gestureDetectionActive
           /\ ~app'.gestureDetectionActive ]_vars

\* a thumbs down has just been confirmed in LongTask
C8_Witness ==
    /\ ev.op = "hands"
    /\ ev.conf = NO
    /\ ctrl.previousFlowState = LONG_TASK
    /\ ctrl.flowState = TASK_ACTIVE
    /\ ctrl.musicResponse = "no"

\* a thumbs up has just been confirmed in LongTask
C8_WitnessYes ==
    /\ ev.op = "hands"
    /\ ev.conf = YES
    /\ ctrl.previousFlowState = LONG_TASK
    /\ ctrl.flowState = MUSIC_PLAYING

\* ---------------------------------------------------------------------------
\* C9
\* ---------------------------------------------------------------------------
\* a tick resolving in LongTask with class 3 (person present, water on) whose
\* timestamp is more than GESTURE_TIMEOUT after the entry into LongTask, where
\* the gesture window started
WindowElapsed ==
    /\ ev'.op = "predict"
    /\ ev'.cls = 3
    /\ ctrl.flowState = LONG_TASK
    /\ hist.askedAt # << >>
    /\ \E l \in LoopIds :
          /\ loops[l].pc = "predict"
          /\ loops'[l].pc # "predict"
          /\ loops[l].now - hist.askedAt[Len(hist.askedAt)] > TIMING.GESTURE_TIMEOUT

\* C9: in LongTask with person present and water on and no gesture confirmed,
\* the first tick taken more than GESTURE_TIMEOUT after the gesture window
\* started moves the machine to TaskActive with musicResponse timeout and
\* gesture detection off: no such tick leaves the machine in LongTask.
C9_GestureTimeout ==
    [][ WindowElapsed
        => /\ ctrl'.flowState = TASK_ACTIVE
           /\ ctrl'.musicResponse = "timeout"
           /\ ~ctrl'.gestureDetectionActive
           /\ ~app'.gestureDetectionActive ]_vars

\* the gesture window has just run out
C9_Witness ==
    /\ ev.op = "predict"
    /\ ev.cls = 3
    /\ ctrl.previousFlowState = LONG_TASK
    /\ ctrl.flowState = TASK_ACTIVE
    /\ ctrl.musicResponse = "timeout"
    /\ ctrl.musicAsked
    /\ clock - ctrl.gestureStartTime > TIMING.GESTURE_TIMEOUT

\* ---------------------------------------------------------------------------
\* C10
\* ---------------------------------------------------------------------------
\* C10: an evaluation confirms gesture g only if every evaluation of the
\* current unbroken run classified g with a hand detected and the run began at
\* least gestureHoldDuration ago; an evaluation with no hand or no gesture
\* clears the hold, and an evaluation that classifies another gesture than the
\* run before it restarts the hold at zero for that gesture without
\* confirming.
C10_HoldConfirmation ==
    [][ ev'.op = "hands"
        => /\ ev'.conf # NULL =>
                 /\ hist'.runGesture = ev'.conf
                 /\ hist.runGesture = ev'.conf
                 /\ clock - hist'.runSince >= CONFIG.gestureHoldDuration
           /\ hist'.runGesture = NULL =>
                 /\ app'.gestureHoldStart = 0
                 /\ app'.currentGesture = NULL
                 /\ ev'.conf = NULL
           /\ (hist'.runGesture # NULL /\ hist'.runGesture # hist.runGesture) =>
                 /\ app'.gestureHoldStart = clock
                 /\ app'.currentGesture = hist'.runGesture
                 /\ ev'.conf = NULL ]_vars

\* a thumbs up is confirmed by a hold that had to start again after the
\* gesture window opened
C10_Witness ==
    /\ ev.op = "hands"
    /\ ev.conf = YES
    /\ hist.runGesture = YES
    /\ clock - hist.runSince >= CONFIG.gestureHoldDuration
    /\ hist.runSince > ctrl.gestureStartTime
    /\ ctrl.flowState = MUSIC_PLAYING

\* ---------------------------------------------------------------------------
\* C11  once handleGestureResult has returned a confirmed gesture, a further
\*      call to it, whatever gesture it is given, returns no confirmation and
\*      leaves the hold state as it is, as long as the hold was not reset
\* ---------------------------------------------------------------------------
\* the step taken last confirmed a gesture and the hold was not reset since
JustConfirmed == ev.conf # NULL /\ app.currentGesture # NULL

C11_ConfirmedLatches ==
    JustConfirmed =>
        \A g \in { YES, NO, NULL } :
            LET h == handleGestureResult(app, g, clock)
            IN  h.result \notin { "confirmed", "pending" } /\ h.a = app

\* ---------------------------------------------------------------------------
\* C12  a tick that finds the machine in Interruption and gives it a class
\*      with a person present (2 or 3, water off or on) moves it to
\*      ReturnAfterAbsence
\* ---------------------------------------------------------------------------
C12_InterruptionToReturn ==
    [][ (ctrl.flowState = INTERRUPTION /\ ev'.op = "predict" /\ ev'.cls \in { 2, 3 })
            => ctrl'.flowState = RETURN_AFTER_ABSENCE ]_vars

\* a tick with class 2 (person present, water off) took the machine from
\* Interruption to ReturnAfterAbsence
C12_Witness ==
    /\ ev.op = "predict" /\ ev.cls = 2
    /\ ctrl.flowState = RETURN_AFTER_ABSENCE
    /\ ctrl.previousFlowState = INTERRUPTION
    /\ route = getRouteForFlowState(RETURN_AFTER_ABSENCE)

\* ---------------------------------------------------------------------------
\* C13  the machine leaves ReturnAfterAbsence for TaskActive when
\*      RELIEF_DURATION has passed since it entered ReturnAfterAbsence, and
\*      not before: time does not pass the end of the relief period while
\*      the machine waits there, and the step to TaskActive is not taken
\*      while the relief period of the current visit still runs
\* ---------------------------------------------------------------------------
\* a relief period still runs: a timer armed on entering ReturnAfterAbsence
\* less than RELIEF_DURATION ago is pending
ReliefPending(ts) ==
    \E i \in 1..Len(ts) : ts[i].state = RETURN_AFTER_ABSENCE /\ ts[i].at > clock

C13_ReliefThenTaskActive ==
    [][ /\ (ctrl.flowState = RETURN_AFTER_ABSENCE /\ ev'.op = "advance")
            => ReliefPending(timers)
        /\ (ctrl.flowState = RETURN_AFTER_ABSENCE /\ ctrl'.flowState = TASK_ACTIVE)
            => ~ReliefPending(timers') ]_vars

\* ---------------------------------------------------------------------------
\* C14  a sample makes the smoother report a class change exactly when the
\*      majority class of the buffer differs from the stable class, the
\*      majority holds at least majorityThreshold of the buffer, and more
\*      than stateDebounceMs have passed since the last accepted change
\* ---------------------------------------------------------------------------
\* the three conditions for the buffer after the push, the stable class cur
\* and the time of the last accepted change (0: none yet)
ChangeDue(buffer, cur, lastAccepted) ==
    LET m == majorityOf(buffer) IN
    /\ m.class # cur
    /\ m.count * 100 >= CONFIG.majorityThreshold * Len(buffer)
    /\ (lastAccepted = 0 \/ clock - lastAccepted > CONFIG.stateDebounceMs)

C14_ChangeExactlyWhenDue ==
    [][ ev'.op = "predict" =>
            ( app'.currentClass # app.currentClass
                <=> ChangeDue(app'.predictionBuffer, app.currentClass,
                              hist.acceptedAt) ) ]_vars

\* ---------------------------------------------------------------------------
\* The smoother on its own: samples are ingested one after the other with the
\* buffer size and the majority threshold of the source
\* ---------------------------------------------------------------------------
SmootherMaxTime == 2

\* runPredictionLoop's use of the smoother, without inference latency: the
\* vote is pushed and an accepted change becomes the stable class
IngestResult(r) ==
    /\ app' = classApplied(r, clock)
    /\ ev' = Ev("ingest", mlClassOf(r), NULL)
    /\ hist' = [ hist EXCEPT !.acceptedAt = IF r.newClass # 0 THEN clock ELSE @ ]
    /\ UNCHANGED << clock, CONFIG, TIMING, bus, env, ctrl, sd, gd, timers, loops, route, audio >>

Ingest(predictions) == IngestResult(processPredictionBuffer(app, predictions, clock))

\* no stable class and an empty buffer, or a stable class the whole buffer
\* agrees with
SmootherInit ==
    /\ clock = T0
    /\ ctrl = AppControllerInit
    /\ \E cur \in 0..3 :
          app = [ AppStateInit EXCEPT
                    !.currentClass = cur,
                    !.predictionBuffer =
                        IF cur = 0 THEN << >>
                        ELSE [ i \in 1..SourceConfig.predictionBufferSize |-> cur ] ]
    /\ sd = [ model |-> FALSE, webcam |-> FALSE ]
    /\ gd = [ hands |-> FALSE ]
    /\ timers = << >>
    /\ loops = [ l \in 1..MaxLoops |-> NoLoop ]
    /\ route = "idle"
    /\ audio = NoAudio
    /\ bus = EventBusInit
    /\ ev = Ev("construct", 0, NULL)
    /\ hist = [ acceptedAt |-> 0, askedAt |-> << >>, oldTimers |-> 0,
                runGesture |-> NULL, runSince |-> 0 ]
    /\ CONFIG = [ SourceConfig EXCEPT !.stateDebounceMs = 1 ]
    /\ TIMING = ScaledTiming
    /\ env = [ horizon     |-> SmootherMaxTime,
               predictions |-> { Sure(1), Sure(2), Unsure },
               hands       |-> { NoHand },
               outcomes    |-> { TRUE },
               audio       |-> FALSE ]

SmootherNext ==
    \/ \E predictions \in env.predictions : Ingest(predictions)
    \/ Advance

SmootherSpec == SmootherInit /\ [][SmootherNext]_vars

\* ---------------------------------------------------------------------------
\* C15  when several classes share the highest vote count, the majority
\*      class the smoother computes is the stable class if it is among them,
\*      and the lowest of them otherwise
\* ---------------------------------------------------------------------------
\* the classes with the highest vote count
TopClasses(buffer) ==
    LET keys == { buffer[i] : i \in 1..Len(buffer) }
    IN  { k \in keys : \A j \in keys : voteCount(buffer, j) <= voteCount(buffer, k) }

\* the majority class with ties broken as the specification says
MajorityBySpec(buffer, cur) ==
    IF cur \in TopClasses(buffer) THEN cur
    ELSE CHOOSE k \in TopClasses(buffer) : \A j \in TopClasses(buffer) : k <= j

C15_TieKeepsStableClass ==
    [][ ev'.op = "ingest" =>
            majorityOf(app'.predictionBuffer).class
                = MajorityBySpec(app'.predictionBuffer, app.currentClass) ]_vars

\* ---------------------------------------------------------------------------
\* C16  every step that takes the machine into Idle, whether by the goodbye
\*      timer, by the inactivity timeout of PersonArrived, by startDetection
\*      or by stopDetection, leaves every field of the flow context cleared
\* ---------------------------------------------------------------------------
C16_IdleClearsContext ==
    [][ (ctrl.flowState # IDLE /\ ctrl'.flowState = IDLE)
            => (ContextCleared(ctrl') /\ ~app'.gestureDetectionActive) ]_vars

\* ---------------------------------------------------------------------------
\* C17  the page last requested from the router is the page of the current
\*      flow state, and no two flow states share a page
\* ---------------------------------------------------------------------------
C17_PageOfCurrentState ==
    /\ route = getRouteForFlowState(ctrl.flowState)
    /\ \A s, t \in FLOW_STATE :
          getRouteForFlowState(s) = getRouteForFlowState(t) => s = t

\* a confirmed thumbs up took the machine to MusicPlaying and its page
C17_Witness ==
    /\ ev.conf = YES
    /\ ctrl.flowState = MUSIC_PLAYING
    /\ ctrl.previousFlowState = LONG_TASK
    /\ route = "musicplaying"

\* ---------------------------------------------------------------------------
\* C18  a tick for which predict() returns nothing leaves the flow state as
\*      it found it, unless its gesture step confirms a gesture, and runs to
\*      its end: the loop goes on to its gesture step or to the next
\*      animation frame
\* ---------------------------------------------------------------------------
\* predict() returns null: the model or the webcam is missing
MissingInput == ~sd.model \/ ~sd.webcam

C18_MissingInputHoldsState ==
    [][ /\ (ev'.op = "raf" /\ app.isRunning /\ MissingInput)
            => /\ ctrl'.flowState = ctrl.flowState \/ ev'.conf # NULL
               /\ \A l \in LoopIds :
                     loops[l].pc = "raf" => loops'[l].pc \in { "raf", "hands" }
        /\ (ev'.op = "webcam" /\ app'.isRunning /\ MissingInput)
            => /\ ctrl'.flowState = IDLE
               /\ \A l \in LoopIds :
                     loops[l].pc = "webcam" => loops'[l].pc \in { "webcam", "raf", "hands" }
      ]_vars

\* a tick without classification ran while the machine was in PersonArrived
C18_Witness ==
    /\ ev.op = "raf" /\ ev.cls = 0
    /\ app.isRunning /\ MissingInput
    /\ ctrl.flowState = PERSON_ARRIVED
    /\ \E l \in LoopIds : loops[l].pc = "raf"

\* ---------------------------------------------------------------------------
\* Invalid input: a classifier with a fifth class, a hand with 20 landmarks
\* ---------------------------------------------------------------------------
InvalidMaxTime == 3

\* a frame the classifier is sure about, of a class past the four known ones
SureOutOfRange == << 5, 5, 5, 5, 80 >>
\* a thumbs-up hand that lost its last landmark
ShortHand == [ k \in 1..20 |-> ThumbUpHand[k] ]

InvalidInit ==
    /\ Constructed(MaxLoops)
    /\ CONFIG = ScaledConfig
    /\ TIMING = ScaledTiming
    /\ env = [ horizon     |-> InvalidMaxTime,
               predictions |-> { Sure(1), Sure(3), SureOutOfRange },
               hands       |-> { ThumbUpHand, ShortHand },
               outcomes    |-> { TRUE },
               audio       |-> FALSE ]

InvalidSpec == InvalidInit /\ [][Next]_vars

\* ---------------------------------------------------------------------------
\* C19  invalid input counts as no signal: a landmark set that has not 21
\*      points gives no gesture and resets the hold, a class outside 1..4
\*      is never voted into the buffer and a tick that hands such a class to
\*      the state machine changes no flow state
\* ---------------------------------------------------------------------------
C19_InvalidInputIsAbsence ==
    [][ /\ (ev'.op = "hands" /\ Len(app'.handLandmarks) \notin { 0, 21 })
            => /\ ev'.conf = NULL
               /\ app'.currentGesture = NULL
               /\ app'.gestureHoldStart = 0
        /\ ev'.op = "predict"
            => /\ \A i \in 1..Len(app'.predictionBuffer) :
                     app'.predictionBuffer[i] \in 1..4
               /\ ev'.cls \notin 0..4 => ctrl'.flowState = ctrl.flowState
      ]_vars

\* ---------------------------------------------------------------------------
\* C20  stopDetection leaves the prediction buffer empty, so that the first
\*      samples after the next startDetection are not counted together with
\*      votes cast before the stop
\* ---------------------------------------------------------------------------
C20_StopClearsBuffer ==
    [][ ev'.op = "stop" => app'.predictionBuffer = << >> ]_vars

\* ---------------------------------------------------------------------------
\* C21  the prediction buffer never holds more than predictionBufferSize
\*      votes, and every ingested sample appends its vote at the end and
\*      evicts the oldest vote when the buffer is full: the buffer is the
\*      most recent votes in arrival order
\* ---------------------------------------------------------------------------
\* the last n elements of a sequence
LastVotes(seq, n) == SubSeq(seq, Len(seq) - n + 1, Len(seq))

C21_BufferIsRecentVotes ==
    [][ ev'.op = "ingest" =>
          LET b1 == app'.predictionBuffer
              n  == IF Len(app.predictionBuffer) < CONFIG.predictionBufferSize
                    THEN Len(app.predictionBuffer) + 1
                    ELSE CONFIG.predictionBufferSize
          IN  /\ Len(b1) = n
              /\ b1 = LastVotes(Append(app.predictionBuffer, b1[Len(b1)]), n)
      ]_vars

\* six votes for class 1 have pushed six of the ten votes for class 3 out
C21_Witness ==
    /\ ev.op = "ingest"
    /\ app.predictionBuffer = << 3, 3, 3, 3, 1, 1, 1, 1, 1, 1 >>
    /\ app.currentClass = 1

\* ---------------------------------------------------------------------------
\* C22  a sample of low confidence is a vote for the stable class
\* ---------------------------------------------------------------------------
\* the vote a sample of low confidence would add to the buffer now
UnsureVote ==
    LET b == processPredictionBuffer(app, Unsure, clock).a.predictionBuffer
    IN  b[Len(b)]

\* a sample of low confidence, ingested now, would leave the majority with
\* the stable class and report no change
UnsureKeepsMajority ==
    LET r == processPredictionBuffer(app, Unsure, clock)
    IN  /\ majorityOf(r.a.predictionBuffer).class = app.currentClass
        /\ r.newClass = 0

\* C22 as stated: whatever the state of the smoother, the vote of a sample of
\* low confidence is the stable class
C22_StatusQuoVoteAlways == UnsureVote = app.currentClass

\* C22 amended: once there is a stable class, the vote of a sample of low
\* confidence is that class, and if the majority is with the stable class
\* the sample leaves it there and no change is reported; while there is no
\* stable class yet, the vote is class 1
C22_StatusQuoVote ==
    /\ app.currentClass # 0 =>
          /\ UnsureVote = app.currentClass
          /\ majorityOf(app.predictionBuffer).class = app.currentClass
                => UnsureKeepsMajority
    /\ app.currentClass = 0 => UnsureVote = 1

\* a sample of low confidence has voted for the stable class 3 right after a
\* vote for class 1
C22_Witness ==
    /\ ev.op = "ingest"
    /\ app.currentClass = 3
    /\ app.predictionBuffer = << 3, 3, 3, 3, 3, 3, 3, 3, 1, 3 >>

\* ---------------------------------------------------------------------------
\* The gesture classification on its own: hands around the thumb threshold
\* and the curl boundary are shown one after the other
\* ---------------------------------------------------------------------------
\* y of the thumb tip: offsets 9, 8, 7, 0, -7, -8, -9 from the palm centre
ProbeThumbs == { 41, 42, 43, 50, 57, 58, 59 }
\* y of a finger tip: level with and below its middle joint at 55
ProbeTips == { 55, 56 }

\* 21 landmarks: thumb tip at thumbY, palm centre at 50, the tips of index,
\* middle, ring and little finger at tips[1..4], every other joint at 55
ProbeHand(thumbY, tips) ==
    [ k \in 1..21 |-> IF k = 5 THEN thumbY
                      ELSE IF k = 10 THEN 50
                      ELSE IF k = 9 THEN tips[1]
                      ELSE IF k = 13 THEN tips[2]
                      ELSE IF k = 17 THEN tips[3]
                      ELSE IF k = 21 THEN tips[4]
                      ELSE 55 ]

ProbeHands ==
    { ProbeHand(thumbY, tips) :
         thumbY \in ProbeThumbs, tips \in [ 1..4 -> ProbeTips ] }

\* onResults stores the landmarks, then the gesture is classified
Classify(landmarks) ==
    /\ app' = [ app EXCEPT !.handLandmarks = landmarks ]
    /\ ev' = Ev("classify", 0, NULL)
    /\ hist' = runAfter(hist, [ app EXCEPT !.handLandmarks = landmarks ], clock)
    /\ UNCHANGED << clock, CONFIG, TIMING, bus, env, ctrl, sd, gd, timers, loops, route, audio >>

GestureInit ==
    /\ Constructed(MaxLoops)
    /\ CONFIG = ScaledConfig
    /\ TIMING = ScaledTiming
    /\ env = [ horizon     |-> 0,
               predictions |-> { },
               hands       |-> ProbeHands,
               outcomes    |-> { TRUE },
               audio       |-> FALSE ]

GestureNext == \E landmarks \in env.hands : Classify(landmarks)

GestureSpec == GestureInit /\ [][GestureNext]_vars

\* ---------------------------------------------------------------------------
\* C23  with at least 3 of the 4 fingers curled, a thumb offset above
\*      thumbExtensionThreshold is thumbs up and one below minus the
\*      threshold is thumbs down; every other hand gives no gesture
\* ---------------------------------------------------------------------------
\* how far the thumb tip is above the palm centre (image y grows downwards)
ThumbOffset(landmarks) == landmarks[10] - landmarks[5]

\* the fingers whose tip is below their middle joint
CurledFingers(landmarks) ==
    { f \in 1..4 : landmarks[4 * f + 5] > landmarks[4 * f + 3] }

GestureBySpec(landmarks) ==
    IF Cardinality(CurledFingers(landmarks)) >= 3
       /\ ThumbOffset(landmarks) > CONFIG.thumbExtensionThreshold
    THEN YES
    ELSE IF Cardinality(CurledFingers(landmarks)) >= 3
            /\ ThumbOffset(landmarks) < -CONFIG.thumbExtensionThreshold
    THEN NO
    ELSE NULL

C23_GestureClassification ==
    ev.op = "classify" => hist.runGesture = GestureBySpec(app.handLandmarks)

\* a hand with three fingers curled and the thumb just past the threshold
\* below the palm was classified as thumbs down
C23_Witness ==
    /\ ev.op = "classify"
    /\ Cardinality(CurledFingers(app.handLandmarks)) = 3
    /\ ThumbOffset(app.handLandmarks) = -(CONFIG.thumbExtensionThreshold + 1)
    /\ hist.runGesture = NO

\* ---------------------------------------------------------------------------
\* A hold of several evaluations: the clock unit is 100 ms, the hold lasts
\* five units and the gesture window is longer than the hold
\* ---------------------------------------------------------------------------
HoldMaxTime == 8

HoldConfig == [ ScaledConfig EXCEPT !.gestureHoldDuration = 5 ]

HoldTiming == [ ScaledTiming EXCEPT !.GESTURE_TIMEOUT = 6 ]

HoldInit ==
    /\ Constructed(MaxLoops)
    /\ CONFIG = HoldConfig
    /\ TIMING = HoldTiming
    /\ env = [ horizon     |-> HoldMaxTime,
               predictions |-> { Sure(2), Sure(3) },
               hands       |-> { ThumbUpHand, NoHand },
               outcomes    |-> { TRUE },
               audio       |-> FALSE ]

HoldSpec == HoldInit /\ [][Next]_vars

\* ---------------------------------------------------------------------------
\* C24  an evaluation that classifies the gesture of the running hold
\*      confirms it exactly when gestureHoldDuration has passed since the
\*      hold started: earlier evaluations confirm nothing and leave the flow
\*      state, and a thumbs up confirmed in LongTask leads to MusicPlaying
\* ---------------------------------------------------------------------------
C24_ConfirmedWhenHoldElapsed ==
    [][ (/\ ev'.op = "hands"
         /\ hist'.runGesture # NULL
         /\ hist'.runGesture = app.currentGesture)
        => IF clock - app.gestureHoldStart >= CONFIG.gestureHoldDuration
           THEN /\ ev'.conf = hist'.runGesture
                /\ (ctrl.flowState = LONG_TASK /\ ev'.conf = YES)
                      => /\ ctrl'.flowState = MUSIC_PLAYING
                         /\ route' = getRouteForFlowState(MUSIC_PLAYING)
           ELSE /\ ev'.conf = NULL
                /\ ctrl'.flowState = ctrl.flowState ]_vars

\* a thumbs up held since five clock units is confirmed and takes the machine
\* from LongTask to MusicPlaying
C24_Witness ==
    /\ ev.op = "hands"
    /\ ev.conf = YES
    /\ hist.runGesture = YES
    /\ clock - hist.runSince = CONFIG.gestureHoldDuration
    /\ CONFIG.gestureHoldDuration = 5
    /\ ctrl.flowState = MUSIC_PLAYING
    /\ ctrl.previousFlowState = LONG_TASK

\* ---------------------------------------------------------------------------
\* C25  a timer that fires while the machine is in another state than the
\*      one that armed it changes nothing: the flow state, the controller's
\*      context, the store and the requested page stay as they are
\* ---------------------------------------------------------------------------
C25_TimerElsewhereIsNoOp ==
    [][ \A i \in 1..Len(timers) :
           (ev'.op = "timer" /\ IsNextTimer(i) /\ timers[i].state # ctrl.flowState)
              => /\ ctrl' = ctrl
                 /\ app' = app
                 /\ route' = route
                 /\ timers' = RemoveAt(timers, i) ]_vars

\* a timer has fired and left the machine in Interruption, a state that no
\* timer callback leads to
C25_Witness ==
    /\ ev.op = "timer"
    /\ ctrl.flowState = INTERRUPTION
    /\ route = getRouteForFlowState(INTERRUPTION)

\* ---------------------------------------------------------------------------
\* C26  in every state of a session, a tick that gives the machine class 4
\*      (person absent, water on) moves it to Interruption on the worried
\*      page; a tick in Interruption with a person present moves it to
\*      ReturnAfterAbsence on the youreback page, and the relief timer takes
\*      it from there to TaskActive
\* ---------------------------------------------------------------------------
\* the states of a session named by the flow logic
SessionStates ==
    { PERSON_ARRIVED, TASK_ACTIVE, LONG_TASK, MUSIC_PLAYING,
      RETURN_AFTER_ABSENCE, SESSION_FINISHED, SESSION_ENDS }

C26_LeaveWithWaterOnWorries ==
    [][ /\ (ev'.op = "predict" /\ ev'.cls = 4 /\ ctrl.flowState \in SessionStates)
            => /\ ctrl'.flowState = INTERRUPTION
               /\ route' = "worried"
        /\ (ev'.op = "predict" /\ ev'.cls \in { 2, 3 } /\ ctrl.flowState = INTERRUPTION)
            => /\ ctrl'.flowState = RETURN_AFTER_ABSENCE
               /\ route' = "youreback"
        /\ (ev'.op = "timer" /\ ctrl.flowState = RETURN_AFTER_ABSENCE)
            => ctrl'.flowState \in { RETURN_AFTER_ABSENCE, TASK_ACTIVE }
      ]_vars

\* ---------------------------------------------------------------------------
\* C27  a tick that finds the water off (class 1 or 2) in TaskActive,
\*      LongTask, MusicPlaying, ReturnAfterAbsence or Interruption moves the
\*      machine to SessionFinished; unless a person with water on is seen or
\*      detection is stopped or started, SessionFinished is left only for
\*      SessionEnds on the bye page and SessionEnds only for Idle
\* ---------------------------------------------------------------------------
\* the states in which the water can go off during a session
WaterStates ==
    { TASK_ACTIVE, LONG_TASK, MUSIC_PLAYING, RETURN_AFTER_ABSENCE, INTERRUPTION }

\* a step of the machine itself that does not see a person with water on
NoNewTask == ev'.op \in { "predict", "raf", "hands", "timer" } /\ ev'.cls # 3

C27_WaterOffEndsSession ==
    [][ /\ (ev'.op = "predict" /\ ev'.cls \in { 1, 2 } /\ ctrl.flowState \in WaterStates)
            => /\ ctrl'.flowState = SESSION_FINISHED
               /\ route' = "sessionfinished"
        /\ (NoNewTask /\ ctrl.flowState = SESSION_FINISHED)
            => \/ ctrl'.flowState = SESSION_FINISHED
               \/ ctrl'.flowState = SESSION_ENDS /\ route' = "bye"
        /\ (NoNewTask /\ ctrl.flowState = SESSION_ENDS)
            => \/ ctrl'.flowState = SESSION_ENDS
               \/ ctrl'.flowState = IDLE /\ route' = "idle"
      ]_vars

\* ---------------------------------------------------------------------------
\* C28  a tick in LongTask whose class is no longer 3, or whose timestamp is
\*      past the gesture window, leaves LongTask by that exit and ends
\*      without evaluating the gesture: no gesture is confirmed, the hold is
\*      left as it is, and neither MusicPlaying nor musicResponse "no" results
\* ---------------------------------------------------------------------------
\* the state machine of the tick of loop l runs in this step, in LongTask,
\* with a changed signal or an elapsed gesture window
LongTaskExitDue(l) ==
    /\ ev'.op = "predict"
    /\ loops[l].pc = "predict"
    /\ loops'[l].pc # "predict"
    /\ ctrl.flowState = LONG_TASK
    /\ \/ ev'.cls \in { 1, 2, 4 }
       \/ ev'.cls = 3 /\ gestureTimedOut(ctrl, loops[l].now)

C28_ExitBeforeGesture ==
    [][ \A l \in LoopIds :
           LongTaskExitDue(l)
              => /\ loops'[l].pc = "raf"
                 /\ ev'.conf = NULL
                 /\ app'.currentGesture = app.currentGesture
                 /\ app'.gestureHoldStart = app.gestureHoldStart
                 /\ ctrl'.flowState =
                       CASE ev'.cls = 4 -> INTERRUPTION
                         [] ev'.cls = 2 -> SESSION_FINISHED
                         [] ev'.cls = 1 -> SESSION_ENDS
                         [] ev'.cls = 3 -> TASK_ACTIVE
                 /\ ctrl'.musicResponse # "no"
                 /\ ev'.cls = 3 => ctrl'.musicResponse = "timeout" ]_vars

\* the gesture window ran out on a tick at which the hold of a thumbs up was
\* long enough to be confirmed
C28_Witness ==
    /\ ev.op = "predict"
    /\ ev.cls = 3
    /\ ctrl.flowState = TASK_ACTIVE
    /\ ctrl.previousFlowState = LONG_TASK
    /\ ctrl.musicResponse = "timeout"
    /\ app.currentGesture = YES
    /\ clock - app.gestureHoldStart >= CONFIG.gestureHoldDuration

\* ---------------------------------------------------------------------------
\* C29  taskStartTime is recorded by the first entry into TaskActive after
\*      Idle and by nothing else; once recorded, no step changes it, a later
\*      entry into TaskActive included, until the machine is in Idle again,
\*      where it is cleared
\* ---------------------------------------------------------------------------
C29_TaskStartKept ==
    [][ /\ (ctrl.flowState # TASK_ACTIVE /\ ctrl'.flowState = TASK_ACTIVE)
            => ctrl'.taskStartTime = IF ctrl.taskStartTime = 0
                                     THEN clock ELSE ctrl.taskStartTime
        /\ (ctrl.taskStartTime # 0 /\ ctrl'.flowState # IDLE)
            => ctrl'.taskStartTime = ctrl.taskStartTime
        /\ (ctrl.taskStartTime = 0 /\ ctrl'.taskStartTime # 0)
            => ctrl.flowState # TASK_ACTIVE /\ ctrl'.flowState = TASK_ACTIVE
        /\ ctrl'.flowState = IDLE => ctrl'.taskStartTime = 0 ]_vars

\* the machine is back in TaskActive from SessionEnds, which it entered after
\* the recorded start of the task: the goodbye timer of that visit is pending
C29_Witness ==
    /\ ctrl.flowState = TASK_ACTIVE
    /\ ctrl.previousFlowState = SESSION_ENDS
    /\ ctrl.taskStartTime # 0
    /\ \E i \in 1..Len(timers) :
          /\ timers[i].state = SESSION_ENDS
          /\ timers[i].at - TIMING.GOODBYE_DURATION > ctrl.taskStartTime

\* ---------------------------------------------------------------------------
\* C30  gesture detection is active, in the controller and in the store,
\*      exactly when the machine is in LongTask; a step that enters LongTask
\*      records the current time as the start of the gesture window and as
\*      the time of the music question and marks the question as asked, and
\*      a step that leaves LongTask leaves gesture detection off
\* ---------------------------------------------------------------------------
C30_DetectionOnlyInLongTask ==
    /\ [](/\ ctrl.gestureDetectionActive <=> ctrl.flowState = LONG_TASK
          /\ app.gestureDetectionActive <=> ctrl.flowState = LONG_TASK)
    /\ [][ /\ (ctrl.flowState # LONG_TASK /\ ctrl'.flowState = LONG_TASK)
               => /\ ctrl'.gestureDetectionActive
                  /\ app'.gestureDetectionActive
                  /\ ctrl'.gestureStartTime = clock
                  /\ ctrl'.lastMusicAskTime = clock
                  /\ ctrl'.musicAsked
           /\ (ctrl.flowState = LONG_TASK /\ ctrl'.flowState # LONG_TASK)
               => /\ ~ctrl'.gestureDetectionActive
                  /\ ~app'.gestureDetectionActive ]_vars

\* detection was stopped during the music question: the machine is back in
\* Idle with gesture detection off, the question's time still recorded
C30_Witness ==
    /\ ev.op = "stop"
    /\ ctrl.flowState = IDLE
    /\ ~ctrl.gestureDetectionActive
    /\ ~app.gestureDetectionActive
    /\ ctrl.lastMusicAskTime = clock
    /\ Len(hist.askedAt) > 0
    /\ hist.askedAt[Len(hist.askedAt)] = clock

\* ---------------------------------------------------------------------------
\* C31  a tick leaves PersonArrived for Idle only with class 1 and a
\*      timestamp more than INACTIVITY_TIMEOUT after the start of the
\*      inactivity interval; the interval starts when PersonArrived is
\*      entered and starts again at every tick that sees class 2, which
\*      keeps the machine in PersonArrived however long the person stays
\* ---------------------------------------------------------------------------
\* the state machine of the tick of loop l runs in this step, in PersonArrived
PersonArrivedTick(l) ==
    /\ ev'.op = "predict"
    /\ loops[l].pc = "predict"
    /\ loops'[l].pc # "predict"
    /\ ctrl.flowState = PERSON_ARRIVED

InactivityElapsed(l) ==
    loops[l].now - ctrl.inactivityStartTime > TIMING.INACTIVITY_TIMEOUT

C31_IdleAfterInactivity ==
    [][ /\ \A l \in LoopIds :
              PersonArrivedTick(l)
                 => /\ ev'.cls = 2
                        => /\ ctrl'.flowState = PERSON_ARRIVED
                           /\ ctrl'.inactivityStartTime = loops[l].now
                    /\ ev'.cls = 1
                        => IF InactivityElapsed(l)
                           THEN ctrl'.flowState = IDLE /\ route' = "idle"
                           ELSE /\ ctrl'.flowState = PERSON_ARRIVED
                                /\ ctrl'.inactivityStartTime = ctrl.inactivityStartTime
                    /\ ctrl'.flowState = IDLE
                        => ev'.cls = 1 /\ InactivityElapsed(l)
        /\ (ctrl.flowState # PERSON_ARRIVED /\ ctrl'.flowState = PERSON_ARRIVED)
              => ctrl'.inactivityStartTime = clock ]_vars

\* a person without water has stayed for longer than INACTIVITY_TIMEOUT: the
\* interval was restarted after the arrival and the machine is still in
\* PersonArrived
C31_Witness ==
    /\ ev.op = "predict"
    /\ ev.cls = 2
    /\ ctrl.flowState = PERSON_ARRIVED
    /\ ctrl.inactivityStartTime > ctrl.personArrivedTime
    /\ clock - ctrl.personArrivedTime > TIMING.INACTIVITY_TIMEOUT

\* ---------------------------------------------------------------------------
\* C32  the state machine receives a gesture confirmation only while the
\*      gesture window is open (the machine is in LongTask with gesture
\*      detection active), which the confirmation closes: at most one per
\*      window; and a step of the loop that leaves LongTask is exactly one of
\*      a signal change, a timeout, a confirmed thumbs up and a confirmed
\*      thumbs down, the only steps that write musicResponse
\* ---------------------------------------------------------------------------
WindowOpen == ctrl.flowState = LONG_TASK /\ ctrl.gestureDetectionActive

SignalExit ==
    /\ ev'.cls \in { 1, 2, 4 }
    /\ ev'.conf = NULL
    /\ ctrl'.musicResponse = ctrl.musicResponse

TimeoutExit ==
    /\ ev'.cls = 3
    /\ ev'.conf = NULL
    /\ ctrl'.flowState = TASK_ACTIVE
    /\ ctrl'.musicResponse = "timeout"

AffirmExit ==
    /\ ev'.conf = YES
    /\ ctrl'.flowState = MUSIC_PLAYING
    /\ ctrl'.musicResponse = "yes"

DenyExit ==
    /\ ev'.conf = NO
    /\ ctrl'.flowState = TASK_ACTIVE
    /\ ctrl'.musicResponse = "no"

C32_OneConfirmationPerWindow ==
    [][ /\ ev'.conf # NULL => WindowOpen /\ ~WindowOpen'
        /\ (/\ ctrl.flowState = LONG_TASK
            /\ ctrl'.flowState # LONG_TASK
            /\ ev'.op \in { "predict", "raf", "hands" })
              => SignalExit \/ TimeoutExit \/ AffirmExit \/ DenyExit
        /\ (ctrl'.musicResponse # ctrl.musicResponse /\ ctrl'.musicResponse # NULL)
              => WindowOpen /\ ~WindowOpen' ]_vars

\* ---------------------------------------------------------------------------
\* C33  a step that confirms a gesture, and a step that switches gesture
\*      detection off, leave the hold cleared: no candidate gesture and no
\*      hold start
\* ---------------------------------------------------------------------------
C33_HoldClearedAtWindowEnd ==
    [][ (\/ ev'.conf # NULL
         \/ ctrl.gestureDetectionActive /\ ~ctrl'.gestureDetectionActive)
        => /\ app'.currentGesture = NULL
           /\ app'.gestureHoldStart = 0 ]_vars

\* ---------------------------------------------------------------------------
\* C34  a sample changes the stable class only to a class that several votes
\*      of the buffer, not this sample's alone, are for
\* ---------------------------------------------------------------------------
C34_NoChangeBySingleSample ==
    [][ (ev'.op = "ingest" /\ app'.currentClass # app.currentClass)
        => voteCount(app'.predictionBuffer, app'.currentClass) >= 2 ]_vars

\* ---------------------------------------------------------------------------
\* C35  while detection is stopped the machine is in Idle, and a tick that
\*      resumes from its awaited inference while detection is stopped leaves
\*      the flow state and the rest of the controller's flow context as they
\*      are
\* ---------------------------------------------------------------------------
C35_StoppedStaysIdle ==
    /\ [](~app.isRunning => ctrl.flowState = IDLE)
    /\ [][ (ev'.op \in { "predict", "hands" } /\ ~app.isRunning)
           => [ ctrl' EXCEPT !.animationFrameId = ctrl.animationFrameId ] = ctrl ]_vars

\* ---------------------------------------------------------------------------
\* C36  MusicPlaying is entered only from LongTask and only by a step that
\*      confirms a thumbs up; in MusicPlaying musicResponse is "yes", the
\*      music question is marked as asked and gesture detection is off
\* ---------------------------------------------------------------------------
C36_MusicOnlyByAffirm ==
    /\ [](ctrl.flowState = MUSIC_PLAYING
             => /\ ctrl.musicResponse = "yes"
                /\ ctrl.musicAsked
                /\ ~ctrl.gestureDetectionActive
                /\ ~app.gestureDetectionActive)
    /\ [][ (ctrl.flowState # MUSIC_PLAYING /\ ctrl'.flowState = MUSIC_PLAYING)
           => /\ ctrl.flowState = LONG_TASK
              /\ ev'.conf = YES ]_vars

\* ---------------------------------------------------------------------------
\* C37  in TaskActive, LongTask and MusicPlaying, and on the working,
\*      askmusic and musicplaying pages, the stable class last handed to the
\*      state machine is 3 (person present, water on)
\* ---------------------------------------------------------------------------
C37_TaskStatesHaveClass3 ==
    /\ ctrl.flowState \in { TASK_ACTIVE, LONG_TASK, MUSIC_PLAYING } => app.currentClass = 3
    /\ route \in { "working", "askmusic", "musicplaying" } => app.currentClass = 3

\* ---------------------------------------------------------------------------
\* A signal that settles on class 1 while ticks and timers keep running
\* ---------------------------------------------------------------------------
LiveMaxTime == 3
\* the time the run goes on for after the signal has settled
SettleTime == 5

LiveInit ==
    /\ Constructed(MaxLoops)
    /\ CONFIG = ScaledConfig
    /\ TIMING = ScaledTiming
    /\ env = [ horizon     |-> LiveMaxTime,
               predictions |-> { Sure(cls) : cls \in 1..4 },
               hands       |-> { ThumbUpHand, NoHand },
               outcomes    |-> { TRUE },
               audio       |-> FALSE ]

\* from now on the classifier sees nobody and no water
Settle ==
    /\ env.predictions # { Sure(1) }
    /\ env' = [ env EXCEPT !.predictions = { Sure(1) },
                           !.horizon = (clock - T0) + SettleTime ]
    /\ ev' = Ev("settle", 0, NULL)
    /\ UNCHANGED << clock, CONFIG, TIMING, bus, ctrl, app, sd, gd, timers, loops, route, audio, hist >>

\* time passes no faster than the loops tick: every prediction loop that is
\* running awaits the inference of a tick begun at the current time
LiveAdvance ==
    /\ \A l \in LoopIds :
          \/ loops[l].pc \in { "none", "init", "webcam" }
          \/ loops[l].pc = "predict" /\ loops[l].now = clock
    /\ Advance

LiveNext ==
    \/ \E l \in LoopIds : StartDetection(l)
    \/ \E l \in LoopIds, modelOk \in env.outcomes, handsOk \in env.outcomes :
          InitDone(l, modelOk, handsOk)
    \/ \E l \in LoopIds, ok \in env.outcomes : WebcamDone(l, ok)
    \/ \E l \in LoopIds : RafFire(l)
    \/ \E l \in LoopIds, predictions \in env.predictions : PredictResolve(l, predictions)
    \/ \E l \in LoopIds, result \in env.hands, sent \in env.outcomes :
          HandsResolve(l, result, sent)
    \/ StopDetection
    \/ \E i \in 1..Len(timers) : TimerFire(i)
    \/ LiveAdvance
    \/ Settle

\* loop l awaits the inference of its tick
PredictPending(l) == loops[l].pc = "predict"

\* The browser runs every animation frame callback it was asked for, resolves
\* every awaited inference and hand detection, and fires every timer that is
\* due.  An awaited inference is written out as weak fairness on its
\* resolution, which is enabled exactly while PredictPending holds.  Time
\* goes on to the end of the run: the ticks of the loops, however many fit
\* between two clock values, do not hold it up for ever.
LiveSpec ==
    /\ LiveInit
    /\ [][LiveNext]_vars
    /\ \A l \in 1..MaxLoops : WF_vars(RafFire(l))
    /\ \A l \in 1..MaxLoops :
          WF_vars(\E result \in env.hands, sent \in env.outcomes :
                     HandsResolve(l, result, sent))
    /\ \A l \in 1..MaxLoops :
          \/ []<>(~PredictPending(l))
          \/ []<><< \E predictions \in env.predictions :
                        PredictResolve(l, predictions) >>_vars
    /\ WF_vars(\E i \in 1..Len(timers) : TimerFire(i))
    /\ \/ []<><< LiveAdvance >>_vars
       \/ <>[](clock = T0 + env.horizon)

\* ---------------------------------------------------------------------------
\* C38  once the signal is class 1 and stays class 1, with detection running
\*      and ticks and timers going on, the machine reaches Idle from
\*      whatever state it is in, and once the stable class is 1 nothing takes
\*      it out of Idle again
\* ---------------------------------------------------------------------------
\* every sample to come is class 1
StaysClass1 == env.predictions = { Sure(1) }

\* the signal has only just settled: the timeouts and timers of the way to
\* Idle fit in the time left
TimeLeft == clock + SettleTime <= T0 + env.horizon

C38_EventuallyIdle ==
    /\ (StaysClass1 /\ app.isRunning /\ TimeLeft) ~> (ctrl.flowState = IDLE)
    /\ [][ (StaysClass1 /\ app.currentClass = 1 /\ ctrl.flowState = IDLE)
           => ctrl'.flowState = IDLE ]_vars

\* the goodbye timer has returned the machine to Idle after the signal
\* settled on class 1, which became the stable class after that
C38_Witness ==
    /\ ev.op = "timer"
    /\ ctrl.flowState = IDLE
    /\ timers = << >>
    /\ StaysClass1
    /\ app.isRunning
    /\ app.lastClassChange > T0 + env.horizon - SettleTime

\* ---------------------------------------------------------------------------
\* The controller in a page that has its audio elements
\* ---------------------------------------------------------------------------
AudioMaxTime == 3

AudioInit ==
    /\ Constructed(MaxLoops)
    /\ CONFIG = ScaledConfig
    /\ TIMING = ScaledTiming
    /\ env = [ horizon     |-> AudioMaxTime,
               predictions |-> { Sure(cls) : cls \in 1..4 },
               hands       |-> { ThumbUpHand, NoHand },
               outcomes    |-> { TRUE },
               audio       |-> TRUE ]

AudioSpec == AudioInit /\ [][Next]_vars

\* the track is the current one and is not paused
Audible(audioName) == audio.currentAudio = audioName /\ ~audio.paused

\* ---------------------------------------------------------------------------
\* C39  the looping worried track is audible only while the machine is in
\*      Interruption: it is stopped on every transition out of Interruption,
\*      and so is silent in ReturnAfterAbsence and in the TaskActive after it
\* ---------------------------------------------------------------------------
C39_WorriedOnlyInInterruption ==
    Audible("worried") => ctrl.flowState = INTERRUPTION

\* ---------------------------------------------------------------------------
\* The EventBus on its own: callbacks are subscribed with on() and once(),
\* unsubscribed with the function on() returned, and the event is emitted
\* ---------------------------------------------------------------------------
MaxHandlers == 3
MaxEmits == 3

BusRest == << clock, CONFIG, TIMING, env, ctrl, app, sd, gd, timers, loops, route,
              audio, hist >>

\* on(event, callback) with a new function object, or once(event, callback)
Subscribe(once, throws) ==
    /\ Len(bus.subs) < MaxHandlers
    /\ LET cb == [ id |-> Len(bus.subs) + 1, once |-> once, throws |-> throws ]
       IN  bus' = [ bus EXCEPT !.listeners = Append(@, cb),
                               !.subs = Append(@, cb),
                               !.fired = Append(@, 0) ]
    /\ ev' = Ev(IF once THEN "once" ELSE "on", 0, NULL)
    /\ UNCHANGED BusRest

\* the unsubscribe function that on() returned for callback id is called
Unsubscribe(id) ==
    /\ id \in 1..Len(bus.subs)
    /\ ~bus.subs[id].once
    /\ indexOf(bus.listeners, id) > 0
    /\ bus' = [ bus EXCEPT !.listeners = off(@, id) ]
    /\ ev' = Ev("off", 0, NULL)
    /\ UNCHANGED BusRest

Emit ==
    /\ bus.emits < MaxEmits
    /\ bus' = emit(bus)
    /\ ev' = Ev("emit", 0, NULL)
    /\ UNCHANGED BusRest

BusNext ==
    \/ \E once \in BOOLEAN, throws \in BOOLEAN : Subscribe(once, throws)
    \/ \E id \in 1..MaxHandlers : Unsubscribe(id)
    \/ Emit

BusSpec == Init /\ [][BusNext]_vars

\* ---------------------------------------------------------------------------
\* C40  an emit calls every callback that was subscribed when it began,
\*      exactly once and in subscription order, whether or not a handler
\*      throws or a once() wrapper unsubscribes itself meanwhile; and a
\*      handler registered with once() is called at most once over all emits
\* ---------------------------------------------------------------------------
C40_EmitCallsEverySubscriber ==
    /\ ev.op = "emit"
          => bus.calls = [ i \in 1..Len(bus.before) |-> bus.before[i].id ]
    /\ \A id \in 1..Len(bus.subs) : bus.subs[id].once => bus.fired[id] <= 1

====
